---- MODULE Spec2Model ----
(***************************************************************************)
(* Verification model of the NASA-backend service: the bearer-token        *)
(* dependency, the machine-learning prediction routers with their          *)
(* process-wide model cache, the authenticated ocean-data router over the  *)
(* heavy query service, and the unauthenticated date-query endpoints.      *)
(***************************************************************************)
EXTENDS Integers, Sequences, FiniteSets, TLC

VARIABLES
  now,              \* current time (seconds)
  authReq,          \* last request to a route behind get_current_user
  authResp,         \* its response
  mlVariant,        \* which ML router module this process serves
  modelFile,        \* state of the file at MODEL_PATH
  mlCache,          \* the module-level _model
  mlSlots,          \* prediction requests suspended at "await file.read()"
  mlResp,           \* last ML response
  fileReads,        \* history: number of joblib.load calls
  reloadCalls,      \* history: number of reload-model requests
  mlCalls,          \* history: number of ML requests started
  loadBeforeReload, \* history: load_model() was called before the first reload
  fileEverBad,      \* history: the model file was absent or unloadable at some time
  dataFileA,        \* "comprehensive_shark_ocean_features - ....csv" on disk
  dataCache,        \* OceanDataService._data_cache
  oceanReq,         \* last request to the authenticated ocean-data router
  oceanResp,        \* its response
  loadPc,           \* position of a running _load_data: "idle" or "assigned"
  lastLoad,         \* history: file seen and exception raised by the last _load_data
  dataFileB,        \* "merged_shark_ocean_data.csv" on disk
  liteReq,          \* last request to a lightweight date endpoint
  liteResp,         \* its response
  queryOut,         \* last direct call of a lightweight query function
  loggedOut,        \* history: headers with which POST /auth/logout succeeded
  issued,           \* last call of create_access_token and its result
  verified,         \* last call of verify_token and its outcome
  loginReq,         \* form fields of the last POST /auth/login
  loginResp,        \* its response
  crudReq,          \* last request to the users or items router
  crudResp,         \* its response
  procOut,          \* last call of process_uploaded_csv and its outcome
  pipe,             \* the run of process_data: next step, steps run, data frame
  mergedFile,       \* merged_shark_ocean_data.csv as the merge script leaves it
  mergeOut,         \* last call of merge_shark_data and its outcome
  augOut,           \* a call of augment_data: its data frame and what it returned
  boot,             \* main.py as imported: outcome of its imports, the application
  probe,            \* last GET sent to that application and its response
  crudLog           \* history: <<router, method>> of the creations and of the
                    \* deletions of id 1 that succeeded

tokenVars == <<issued, verified>>
loginVars == <<loginReq, loginResp>>
crudVars == <<crudReq, crudResp, crudLog>>
authVars == <<now, authReq, authResp, loggedOut, tokenVars, loginVars, crudVars>>
toolVars == <<procOut, pipe, mergedFile, mergeOut, boot, probe, augOut>>
mlVars == <<mlVariant, modelFile, mlCache, mlSlots, mlResp, toolVars,
            fileReads, reloadCalls, mlCalls, loadBeforeReload, fileEverBad>>
oceanVars == <<dataFileA, dataCache, oceanReq, oceanResp, loadPc, lastLoad>>
liteVars == <<dataFileB, liteReq, liteResp, queryOut>>
vars == <<authVars, mlVars, oceanVars, liteVars>>

None == "None"

(***************************************************************************)
(* Bounds                                                                  *)
(***************************************************************************)
MaxTime == 2
MaxId == 3          \* path ids of the users and items routers are 1..MaxId
TokenLife == 2      \* time units in the default access-token lifetime
MaxRows == 1        \* rows of an uploaded matrix
MaxCalls == 4       \* ML requests per behaviour
MaxInFlight == 2    \* prediction requests suspended at the same time
MaxDay == 2         \* dates that occur in a dataset are days 1..MaxDay
MaxFileRows == 2    \* rows of a dataset file

(***************************************************************************)
(* Authentication: app/services/auth_service.py, app/routers/auth.py       *)
(***************************************************************************)
SECRET_KEY == "your-secret-key-here-please-change-in-production"
OtherKey == "some-other-secret"
Keys == {SECRET_KEY, OtherKey}

\* Values the "sub" claim of a decoded payload can have: missing, a JSON
\* number, or a string (an e-mail address or not).
NoSub == "<no sub claim>"
NumericSub == "<sub: 42>"
SubClaims == {NoSub, NumericSub, "a@b.com", "admin", ""}
IsString(s) == s \notin {NoSub, NumericSub}

\* pydantic EmailStr, the type of UserBase.email: a string is accepted only
\* when it is a syntactically valid address.
ValidEmails == {"a@b.com", "admin@example.com", "user1@example.com"}
EmailStr(s) == IsString(s) /\ s \in ValidEmails

\* A bearer credential: either a compact JWT (wf) signed with some key, or
\* any other text, such as the fixed strings the auth router hands out.
JwtTokens == [wf : {TRUE}, text : {"jwt"}, key : Keys, exp : 0..MaxTime, sub : SubClaims]
RawTokens == [wf : {FALSE}, text : {"example_jwt_token", "refreshed_jwt_token", "garbage"},
              key : {OtherKey}, exp : {0}, sub : {NoSub}]
Tokens == JwtTokens \cup RawTokens
NoToken == [wf |-> FALSE, text |-> "", key |-> OtherKey, exp |-> 0, sub |-> NoSub]

\* The Authorization header of a request: absent, another scheme, or Bearer.
Headers == {[scheme |-> "none", token |-> NoToken]}
           \cup [scheme : {"Basic", "Bearer"}, token : Tokens]

\* jose.jwt.decode(token, key, algorithms): raises JWTError for a malformed
\* token, a bad signature, an expired token (exp < now) and a sub claim that
\* is not a string; otherwise returns the payload.
jwt_decode(token, key, t) ==
  IF ~token.wf THEN [ok |-> FALSE, sub |-> NoSub]
  ELSE IF token.key # key THEN [ok |-> FALSE, sub |-> NoSub]
  ELSE IF token.exp < t THEN [ok |-> FALSE, sub |-> NoSub]
  ELSE IF token.sub # NoSub /\ ~IsString(token.sub) THEN [ok |-> FALSE, sub |-> NoSub]
  ELSE [ok |-> TRUE, sub |-> token.sub]

NoUser == [id |-> 0, email |-> "", username |-> "", is_active |-> FALSE]
Raise(code, www) == [raised |-> TRUE, status |-> code, wwwAuth |-> www, user |-> NoUser]
Return(u) == [raised |-> FALSE, status |-> 200, wwwAuth |-> FALSE, user |-> u]

\* OAuth2PasswordBearer(tokenUrl=...) with auto_error: no Authorization
\* header or a scheme other than bearer is a 401 with WWW-Authenticate.
oauth2_scheme(hdr) == hdr.scheme = "Bearer"

\* User(id=1, email=..., username="example_user", is_active=True, ...):
\* model validation of the EmailStr field fails for a non-address.
UserModelValid(email) == EmailStr(email)

\* get_current_user trusting every bearer token without decoding it.
get_current_user_unverified(hdr, t) ==
  IF ~oauth2_scheme(hdr) THEN Raise(401, TRUE)
  ELSE Return([id |-> 1, email |-> "a@b.com",
               username |-> "example_user", is_active |-> TRUE])

\* get_current_user consulting a list of logged-out tokens.
get_current_user_revoking(hdr, t) ==
  IF ~oauth2_scheme(hdr) THEN Raise(401, TRUE)
  ELSE IF hdr \in loggedOut THEN Raise(401, TRUE)
  ELSE LET payload == jwt_decode(hdr.token, SECRET_KEY, t) IN
    IF ~payload.ok THEN Raise(401, TRUE)
    ELSE IF payload.sub = NoSub THEN Raise(401, TRUE)
    ELSE IF ~UserModelValid(payload.sub) THEN Raise(500, FALSE)
    ELSE Return([id |-> 1, email |-> payload.sub,
                 username |-> "example_user", is_active |-> TRUE])

get_current_user(hdr, t) ==
  IF ~oauth2_scheme(hdr) THEN Raise(401, TRUE)
  ELSE LET payload == jwt_decode(hdr.token, SECRET_KEY, t) IN
    IF ~payload.ok THEN Raise(401, TRUE)
    ELSE IF payload.sub = NoSub THEN Raise(401, TRUE)
    ELSE IF ~UserModelValid(payload.sub) THEN Raise(500, FALSE)
    ELSE Return([id |-> 1, email |-> payload.sub,
                 username |-> "example_user", is_active |-> TRUE])

AuthRoutes == {"/auth/refresh", "/auth/me", "/auth/logout"}

NoAuthReq == [route |-> None, hdr |-> [scheme |-> "none", token |-> NoToken], at |-> 0]
NoAuthResp == [status |-> 0, wwwAuth |-> FALSE, handlerRan |-> FALSE,
               user |-> NoUser, body |-> None]

\* The handler bodies of /auth/refresh, /auth/me and /auth/logout.
AuthHandlerBody(route, user) ==
  CASE route = "/auth/refresh" -> "refreshed_jwt_token"
    [] route = "/auth/me" -> user.email
    [] OTHER -> "logout ok"

\* One request to a route declared with Depends(get_current_user); the
\* history of logouts is kept when record is set.
ProtectedRequest(route, hdr, record) ==
  LET dep == get_current_user(hdr, now) IN
  /\ authReq' = [route |-> route, hdr |-> hdr, at |-> now]
  /\ authResp' = IF dep.raised
                 THEN [status |-> dep.status, wwwAuth |-> dep.wwwAuth,
                       handlerRan |-> FALSE, user |-> NoUser, body |-> None]
                 ELSE [status |-> 200, wwwAuth |-> FALSE, handlerRan |-> TRUE,
                       user |-> dep.user, body |-> AuthHandlerBody(route, dep.user)]
  /\ loggedOut' = IF record /\ ~dep.raised /\ route = "/auth/logout"
                  THEN loggedOut \cup {hdr} ELSE loggedOut
  /\ UNCHANGED <<now, tokenVars, loginVars, crudVars, mlVars, oceanVars, liteVars>>

AuthRequest(route, hdr) == ProtectedRequest(route, hdr, FALSE)

DoAuthRequest == \E route \in AuthRoutes, hdr \in Headers : AuthRequest(route, hdr)

\* A client session: requests that present one of a few tokens, with the
\* successful logouts remembered.
SessionTokens ==
  [wf : {TRUE}, text : {"jwt"}, key : {SECRET_KEY}, exp : 0..MaxTime, sub : {"a@b.com"}]
  \cup [wf : {TRUE}, text : {"jwt"}, key : {OtherKey}, exp : {MaxTime}, sub : {"a@b.com"}]
SessionHeaders == [scheme : {"Bearer"}, token : SessionTokens]

DoSessionRequest ==
  \E route \in AuthRoutes, hdr \in SessionHeaders : ProtectedRequest(route, hdr, TRUE)

Tick ==
  /\ now < MaxTime
  /\ now' = now + 1
  /\ UNCHANGED <<authReq, authResp, loggedOut, tokenVars, loginVars, crudVars,
                 mlVars, oceanVars, liteVars>>

(***************************************************************************)
(* ML prediction routers: app/routers/ml_prediction.py (basic),            *)
(* ml_prediction_advanced.py, ml_prediction_enhanced.py,                   *)
(* ml_prediction_simple.py, and the inline endpoints of simple_main.py.    *)
(***************************************************************************)
Variants == {"basic", "advanced", "enhanced", "simple", "simple_main"}
ReloadVariants == {"basic", "simple"}

\* n_features_in_ of the serialized classifier at MODEL_PATH.
ModelWidth == 2
MaxCols == ModelWidth + 2

MODEL_PATH == "shark_rf_model_round_18.joblib"
NoModel == [path |-> None, n_features_in_ |-> 0]
LoadedModel == [path |-> MODEL_PATH, n_features_in_ |-> ModelWidth]
FileStates == {"ok", "absent", "corrupt"}

\* A load_model() that never consults the cache.
load_model_uncached(cache, file) ==
  IF file = "absent"
  THEN [cache |-> NoModel, model |-> NoModel, error |-> TRUE, read |-> FALSE]
  ELSE IF file = "corrupt"
  THEN [cache |-> NoModel, model |-> NoModel, error |-> TRUE, read |-> TRUE]
  ELSE [cache |-> LoadedModel, model |-> LoadedModel, error |-> FALSE, read |-> TRUE]

\* A load_model() that caches and returns whatever joblib.load left behind
\* when it failed, and reports no error.
load_model_partial(cache, file) ==
  LET partial == [path |-> MODEL_PATH, n_features_in_ |-> 0] IN
  IF cache # NoModel
  THEN [cache |-> cache, model |-> cache, error |-> FALSE, read |-> FALSE]
  ELSE IF file = "absent"
  THEN [cache |-> NoModel, model |-> NoModel, error |-> TRUE, read |-> FALSE]
  ELSE IF file = "corrupt"
  THEN [cache |-> partial, model |-> partial, error |-> FALSE, read |-> TRUE]
  ELSE [cache |-> LoadedModel, model |-> LoadedModel, error |-> FALSE, read |-> TRUE]

\* load_model(): returns the cached object when there is one; otherwise
\* checks the path, calls joblib.load and caches the result.  A failure
\* (raised in the basic router, returned as an error text in the others)
\* leaves the cache empty.
load_model(cache, file) ==
  IF cache # NoModel
  THEN [cache |-> cache, model |-> cache, error |-> FALSE, read |-> FALSE]
  ELSE IF file = "absent"
  THEN [cache |-> NoModel, model |-> NoModel, error |-> TRUE, read |-> FALSE]
  ELSE IF file = "corrupt"
  THEN [cache |-> NoModel, model |-> NoModel, error |-> TRUE, read |-> TRUE]
  ELSE [cache |-> LoadedModel, model |-> LoadedModel, error |-> FALSE, read |-> TRUE]

\* File names are sequences of characters.
DotCsv == <<".", "c", "s", "v">>
LowerChar(c) == CASE c = "C" -> "c" [] c = "S" -> "s" [] c = "V" -> "v"
                  [] c = "A" -> "a" [] OTHER -> c
Lower(s) == [i \in DOMAIN s |-> LowerChar(s[i])]
EndsWith(s, suffix) ==
  /\ Len(s) >= Len(suffix)
  /\ SubSeq(s, Len(s) - Len(suffix) + 1, Len(s)) = suffix
Filenames == { <<"a", ".", "c", "s", "v">>, <<"A", ".", "C", "S", "V">>,
               <<"a", ".", "t", "x", "t">>, <<"c", "s", "v">>, <<>> }

\* The file-type test at the top of each CSV-upload handler.
FilenameOk(variant, fn) ==
  IF variant \in {"simple", "advanced"}
  THEN fn # <<>> /\ EndsWith(Lower(fn), DotCsv)
  ELSE EndsWith(fn, DotCsv)

\* The handler's outermost except clause.  Only the simple router re-raises
\* an HTTPException unchanged ("except HTTPException: raise"); the others
\* catch it with "except Exception" and answer 500.
OuterExcept(variant, status) == IF variant = "simple" THEN status ELSE 500

\* Numeric matrices: a sequence of rows, each a sequence of numbers.
NoMatrix == <<>>
Upload(r, k) == [i \in 1..r |-> [j \in 1..k |-> 10 * i + j]]
Uploads == {Upload(r, k) : r \in 1..MaxRows, k \in 0..MaxCols}
Width(X) == IF X = NoMatrix THEN 0 ELSE Len(X[1])
MinOf(a, b) == IF a < b THEN a ELSE b
Truncate(X, w) == [i \in DOMAIN X |-> SubSeq(X[i], 1, MinOf(w, Len(X[i])))]
ZeroPad(X, w) == [i \in DOMAIN X |-> X[i] \o [j \in 1..(w - Len(X[i])) |-> 0]]

\* What each variant does to the numeric matrix of the upload before it
\* calls predict, given the expected width w.
FitWidth(variant, X, w) ==
  CASE variant = "basic" -> X
    [] variant = "simple_main" -> IF Width(X) # w THEN Truncate(X, w) ELSE X
    [] OTHER -> IF Width(X) > w THEN Truncate(X, w)
                ELSE IF Width(X) < w THEN ZeroPad(X, w) ELSE X

MLResponse(kind, status, called, X, model) ==
  [kind |-> kind, status |-> status, predictCalled |-> called, X |-> X, model |-> model,
   fn |-> <<>>, upload |-> NoMatrix]
\* The same response, with the file name and numeric matrix of its request.
OfRequest(resp, fn, U) == [resp EXCEPT !.fn = fn, !.upload = U]
NoMLResp == MLResponse(None, 0, FALSE, NoMatrix, NoModel)

\* model.predict(X): the estimator raises unless X has n_features_in_
\* columns; every variant turns that into a 500.
predict(variant, model, X) ==
  MLResponse("predict", IF Width(X) = model.n_features_in_ THEN 200 ELSE 500,
             TRUE, X, model)

\* predict handler up to "await file.read()".  done: the response is sent
\* without suspending.
PredictStart(variant, fn, cache, file) ==
  IF ~FilenameOk(variant, fn)
  THEN [done |-> TRUE, status |-> OuterExcept(variant, 400), cache |-> cache,
        local |-> NoModel, read |-> FALSE, loadCalled |-> FALSE]
  ELSE IF variant = "basic"
  THEN [done |-> FALSE, status |-> 0, cache |-> cache,
        local |-> NoModel, read |-> FALSE, loadCalled |-> FALSE]
  ELSE LET l == load_model(cache, file) IN
    IF l.error
    THEN [done |-> TRUE, status |-> OuterExcept(variant, 500), cache |-> l.cache,
          local |-> NoModel, read |-> l.read, loadCalled |-> TRUE]
    ELSE [done |-> FALSE, status |-> 0, cache |-> l.cache,
          local |-> l.model, read |-> l.read, loadCalled |-> TRUE]

\* predict handler after "await file.read()".
PredictResume(variant, X, local, cache, file) ==
  IF variant = "basic"
  THEN LET l == load_model(cache, file) IN
    [cache |-> l.cache, read |-> l.read, loadCalled |-> TRUE,
     resp |-> IF l.error THEN MLResponse("predict", 500, FALSE, NoMatrix, NoModel)
              ELSE predict(variant, l.model, FitWidth(variant, X, l.model.n_features_in_))]
  ELSE
    [cache |-> cache, read |-> FALSE, loadCalled |-> FALSE,
     resp |-> IF variant = "simple" /\ Width(X) = 0
              THEN MLResponse("predict", OuterExcept(variant, 400), FALSE, NoMatrix, NoModel)
              ELSE predict(variant, local, FitWidth(variant, X, local.n_features_in_))]

IdleSlot == [pc |-> "idle", fn |-> <<>>, X |-> NoMatrix, local |-> NoModel]

Count(b) == IF b THEN 1 ELSE 0

MLStart(slot, fn, X) ==
  LET s == PredictStart(mlVariant, fn, mlCache, modelFile) IN
  /\ mlCalls < MaxCalls
  /\ mlSlots[slot].pc = "idle"
  /\ mlCache' = s.cache
  /\ mlSlots' = IF s.done THEN mlSlots
                ELSE [mlSlots EXCEPT ![slot] =
                        [pc |-> "suspended", fn |-> fn, X |-> X, local |-> s.local]]
  /\ mlResp' = IF s.done
               THEN OfRequest(MLResponse("predict", s.status, FALSE, NoMatrix, NoModel), fn, X)
               ELSE mlResp
  /\ fileReads' = fileReads + Count(s.read)
  /\ loadBeforeReload' = (loadBeforeReload \/ (s.loadCalled /\ reloadCalls = 0))
  /\ mlCalls' = mlCalls + 1
  /\ UNCHANGED <<authVars, oceanVars, liteVars, toolVars, mlVariant, modelFile, reloadCalls, fileEverBad>>

MLResume(slot) ==
  LET q == mlSlots[slot]
      r == PredictResume(mlVariant, q.X, q.local, mlCache, modelFile) IN
  /\ q.pc = "suspended"
  /\ mlCache' = r.cache
  /\ mlSlots' = [mlSlots EXCEPT ![slot] = IdleSlot]
  /\ mlResp' = OfRequest(r.resp, q.fn, q.X)
  /\ fileReads' = fileReads + Count(r.read)
  /\ loadBeforeReload' = (loadBeforeReload \/ (r.loadCalled /\ reloadCalls = 0))
  /\ UNCHANGED <<authVars, oceanVars, liteVars, toolVars, mlVariant, modelFile, reloadCalls, mlCalls, fileEverBad>>

\* GET /model-info: loads lazily; the basic router answers 500 when the
\* load raises, the others report the error in a 200 body.
MLModelInfo ==
  LET l == load_model(mlCache, modelFile) IN
  /\ mlCalls < MaxCalls
  /\ mlCache' = l.cache
  /\ mlResp' = MLResponse("model-info",
                          IF l.error /\ mlVariant = "basic" THEN 500 ELSE 200,
                          FALSE, NoMatrix, l.model)
  /\ fileReads' = fileReads + Count(l.read)
  /\ loadBeforeReload' = (loadBeforeReload \/ reloadCalls = 0)
  /\ mlCalls' = mlCalls + 1
  /\ UNCHANGED <<authVars, oceanVars, liteVars, toolVars, mlVariant, modelFile, mlSlots, reloadCalls, fileEverBad>>

\* reload_model calling load_model() without "_model = None" first.
reload_model_keeping(cache, file) == load_model(cache, file)

\* reload_model: "_model = None", then load_model().
reload_model(cache, file) == load_model(NoModel, file)

\* POST /reload-model (basic and simple routers): "_model = None" and then
\* load_model(), with no suspension point in between.
MLReload ==
  LET l == reload_model(mlCache, modelFile) IN
  /\ mlCalls < MaxCalls
  /\ mlVariant \in ReloadVariants
  /\ mlCache' = l.cache
  /\ mlResp' = MLResponse("reload-model",
                          IF l.error /\ mlVariant = "basic" THEN 500 ELSE 200,
                          FALSE, NoMatrix, l.model)
  /\ fileReads' = fileReads + Count(l.read)
  /\ reloadCalls' = reloadCalls + 1
  /\ mlCalls' = mlCalls + 1
  /\ UNCHANGED <<authVars, oceanVars, liteVars, toolVars, mlVariant, modelFile, mlSlots, loadBeforeReload, fileEverBad>>

\* The environment replaces, removes or damages the model file.
SetModelFile(s) ==
  /\ s # modelFile
  /\ modelFile' = s
  /\ fileEverBad' = (fileEverBad \/ s # "ok")
  /\ UNCHANGED <<authVars, oceanVars, liteVars, toolVars, mlVariant, mlCache, mlSlots, mlResp,
                 fileReads, reloadCalls, mlCalls, loadBeforeReload>>



(***************************************************************************)
(* Datasets.  A cell that may be empty is a sequence of at most one        *)
(* number; a date cell is text in the format YYYY-MM-DD ("iso") or text    *)
(* that no date parser accepts ("bad").                                    *)
(***************************************************************************)
Days == 1..MaxDay
QueryDays == 1..(MaxDay + 1)
Missing == <<>>
DateText(d) == [fmt |-> "iso", day |-> d]
BadDateText == [fmt |-> "bad", day |-> 0]

SeqsUpTo(S, n) == UNION {[1..m -> S] : m \in 0..n}

RECURSIVE SumSeq(_)
SumSeq(q) == IF q = <<>> THEN 0 ELSE Head(q) + SumSeq(Tail(q))
Present(c) == c # Missing
\* Values of a response are held in millionths: round(x, 6) of p / q.
Round6(p, q) == (2 * 1000000 * p + q) \div (2 * q)
\* Series.mean() / sum(values) / len(values) over the non-missing cells;
\* absent when every cell is missing.
Mean(cells) ==
  LET vals == SelectSeq(cells, Present) IN
  IF vals = <<>> THEN Missing
  ELSE <<Round6(SumSeq([i \in DOMAIN vals |-> vals[i][1]]), Len(vals))>>
RECURSIVE MinCell(_)
MinCell(q) == IF Len(q) = 1 THEN Head(q)
              ELSE LET m == MinCell(Tail(q)) IN IF Head(q)[1] <= m[1] THEN Head(q) ELSE m
RECURSIVE MaxCell(_)
MaxCell(q) == IF Len(q) = 1 THEN Head(q)
              ELSE LET m == MaxCell(Tail(q)) IN IF Head(q)[1] >= m[1] THEN Head(q) ELSE m
SeriesMin(cells) == LET vals == SelectSeq(cells, Present) IN
                    IF vals = <<>> THEN Missing ELSE <<Round6(MinCell(vals)[1], 1)>>
SeriesMax(cells) == LET vals == SelectSeq(cells, Present) IN
                    IF vals = <<>> THEN Missing ELSE <<Round6(MaxCell(vals)[1], 1)>>
Column(rows, name) == [i \in DOMAIN rows |-> rows[i][name]]

\* Rows of the generation-A file.
RowA(date, sst, chl, ssha, lon, lat) ==
  [Date |-> date, SST_Value |-> sst, CHL_Value |-> chl, SSHA_Value |-> ssha,
   Longitude |-> lon, Latitude |-> lat]
FileRowsA ==
  {RowA(DateText(d), <<10>>, <<5>>, <<7>>, <<100>>, <<20>>) : d \in Days}
  \cup {RowA(DateText(1), <<30>>, Missing, <<7>>, <<102>>, <<22>>),
        RowA(DateText(1), Missing, Missing, Missing, Missing, Missing),
        RowA(BadDateText, <<10>>, <<5>>, <<7>>, <<100>>, <<20>>)}
ColumnsA == {"Date", "SST_Value", "CHL_Value", "SSHA_Value", "Longitude", "Latitude"}

\* A file on disk: absent; present but not readable as UTF-8 CSV text; or
\* a header (columns) and rows that carry one cell per column.
Project(row, cols) == [c \in cols |-> row[c]]
AbsentFile == [exists |-> FALSE, readable |-> FALSE, columns |-> {}, rows |-> <<>>]
UnreadableFile == [exists |-> TRUE, readable |-> FALSE, columns |-> {}, rows |-> <<>>]
File(cols, rows) ==
  [exists |-> TRUE, readable |-> TRUE, columns |-> cols,
   rows |-> [i \in DOMAIN rows |-> Project(rows[i], cols)]]
FilesA ==
  {AbsentFile, UnreadableFile}
  \cup {File(ColumnsA, rows) : rows \in SeqsUpTo(FileRowsA, MaxFileRows)}
  \cup {File(ColumnsA \ {c}, <<RowA(DateText(1), <<10>>, <<5>>, <<7>>, <<100>>, <<20>>)>>) :
          c \in {"Date", "SST_Value"}}

(***************************************************************************)
(* Heavy query service: app/services/ocean_data_service.py                 *)
(***************************************************************************)
\* _load_data: an absent file, or any exception of read_csv / to_datetime,
\* leaves an empty table; otherwise the rows with Date converted to dates.
\* A cell of the Date column after ".dt.date".
DateValue(d) == [fmt |-> "date", day |-> d]

\* pd.read_csv(path): raises for a file that cannot be decoded or parsed,
\* otherwise the table with its Date cells still text.
read_csv(file) ==
  IF ~file.readable THEN [exc |-> "ParserError", table |-> <<>>]
  ELSE [exc |-> None, table |-> file.rows]

\* table['Date'] = pd.to_datetime(table['Date']).dt.date, in place: KeyError
\* without the column, ValueError for a cell that is no date.
ConvertDates(table, cols) ==
  IF "Date" \notin cols THEN [exc |-> "KeyError", table |-> table]
  ELSE IF \E i \in DOMAIN table : table[i].Date.fmt = "bad"
  THEN [exc |-> "ValueError", table |-> table]
  ELSE [exc |-> None,
        table |-> [i \in DOMAIN table |->
                     [table[i] EXCEPT !.Date = DateValue(table[i].Date.day)]]]

\* _load_data without its except clause.
ExceptLoadAbsent(exc) == [exc |-> exc, cache |-> <<>>]

\* "except Exception as e: ... self._data_cache = pd.DataFrame()"
ExceptLoad(exc) == [exc |-> None, cache |-> <<>>]

\* _load_data as a whole: the new cache, and the exception that leaves it.
LoadOutcome(file) ==
  IF ~file.exists THEN [exc |-> None, cache |-> <<>>]
  ELSE LET r == read_csv(file) IN
    IF r.exc # None THEN ExceptLoad(r.exc)
    ELSE LET c == ConvertDates(r.table, file.columns) IN
      IF c.exc # None THEN ExceptLoad(c.exc)
      ELSE [exc |-> None, cache |-> c.table]

load_data(file) == LoadOutcome(file).cache

NoneResult == [kind |-> "None"]
\* An exception that leaves the service method.
RaisedResult == [kind |-> "raised"]
HasColumns(cache, cols) == \A i \in DOMAIN cache : cols \subseteq DOMAIN cache[i]
ValueColumns == {"SST_Value", "CHL_Value", "SSHA_Value"}
\* cache[cache['Date'] == d]: a text cell equals no date.
OnDate(cache, d) == SelectSeq(cache, LAMBDA row : row.Date = DateValue(d))

Aggregate(d, rows) ==
  [kind |-> "aggregate", date |-> d,
   sst_value |-> Mean(Column(rows, "SST_Value")),
   chl_value |-> Mean(Column(rows, "CHL_Value")),
   ssha_value |-> Mean(Column(rows, "SSHA_Value")),
   data_count |-> Len(rows)]

get_data_by_date(cache, d) ==
  IF cache = <<>> THEN NoneResult
  ELSE IF ~HasColumns(cache, {"Date"}) THEN RaisedResult
  ELSE IF OnDate(cache, d) = <<>> THEN Aggregate(d, <<>>)
  ELSE IF ~HasColumns(cache, ValueColumns) THEN RaisedResult
  ELSE Aggregate(d, OnDate(cache, d))

get_data_summary_by_date(cache, d) ==
  IF cache = <<>> THEN NoneResult
  ELSE IF ~HasColumns(cache, {"Date"}) THEN RaisedResult
  ELSE IF OnDate(cache, d) # <<>> /\ ~HasColumns(cache, ValueColumns) THEN RaisedResult
  ELSE LET rows == OnDate(cache, d) IN
    [kind |-> "summary", date |-> d, record_count |-> Len(rows),
     avg_sst_value |-> Mean(Column(rows, "SST_Value")),
     avg_chl_value |-> Mean(Column(rows, "CHL_Value")),
     avg_ssha_value |-> Mean(Column(rows, "SSHA_Value")),
     min_sst_value |-> SeriesMin(Column(rows, "SST_Value")),
     max_sst_value |-> SeriesMax(Column(rows, "SST_Value")),
     min_chl_value |-> SeriesMin(Column(rows, "CHL_Value")),
     max_chl_value |-> SeriesMax(Column(rows, "CHL_Value")),
     min_ssha_value |-> SeriesMin(Column(rows, "SSHA_Value")),
     max_ssha_value |-> SeriesMax(Column(rows, "SSHA_Value"))]

\* sorted(filtered['Date'].unique())
RECURSIVE SortedSeq(_)
SortedSeq(S) == IF S = {} THEN <<>>
                ELSE LET m == CHOOSE x \in S : \A y \in S : x <= y
                     IN <<m>> \o SortedSeq(S \ {m})

\* get_data_by_date_range grouping the whole cache instead of the rows
\* selected by the two date comparisons.
get_data_by_date_range_unfiltered(cache, start, end) ==
  IF cache = <<>> THEN [kind |-> "list", total_records |-> 0, data |-> <<>>]
  ELSE IF ~HasColumns(cache, {"Date"} \cup ValueColumns) THEN RaisedResult
  ELSE IF \E i \in DOMAIN cache : cache[i].Date.fmt # "date" THEN RaisedResult
  ELSE LET dates == SortedSeq({cache[i].Date.day : i \in DOMAIN cache})
       IN [kind |-> "list", total_records |-> Len(cache),
           data |-> [i \in DOMAIN dates |-> Aggregate(dates[i], OnDate(cache, dates[i]))]]

get_data_by_date_range(cache, start, end) ==
  IF cache = <<>> THEN [kind |-> "list", total_records |-> 0, data |-> <<>>]
  ELSE IF ~HasColumns(cache, {"Date"}) THEN RaisedResult
  ELSE IF \E i \in DOMAIN cache : cache[i].Date.fmt # "date" THEN RaisedResult
  ELSE LET filtered == SelectSeq(cache, LAMBDA row : row.Date.day >= start
                                                     /\ row.Date.day <= end)
           dates == SortedSeq({filtered[i].Date.day : i \in DOMAIN filtered})
       IN IF filtered # <<>> /\ ~HasColumns(cache, ValueColumns) THEN RaisedResult
          ELSE [kind |-> "list", total_records |-> Len(filtered),
                data |-> [i \in DOMAIN dates |->
                            Aggregate(dates[i], OnDate(filtered, dates[i]))]]

(***************************************************************************)
(* Authenticated ocean-data router: app/routers/ocean_data.py              *)
(***************************************************************************)
\* "except Exception as e: raise HTTPException(500, ...)" around a handler
\* body also catches an HTTPException raised inside that body.
ExceptException(status) == 500
\* "except HTTPException: raise", placed before "except Exception".
ExceptHTTPException(status) == status

NoBody == [kind |-> "none"]
OceanResponse(status, ran, called, body) ==
  [status |-> status, wwwAuth |-> FALSE, handlerRan |-> ran, serviceCalled |-> called,
   body |-> body]

\* GET /date/{d}, POST /date, GET /public/date/{d}, GET /date/{d}/summary:
\* an absent result raises 503 inside the try block.
AggregateHandler(result) ==
  IF result = RaisedResult
  THEN OceanResponse(ExceptException(500), TRUE, TRUE, NoBody)
  ELSE IF result = NoneResult
  THEN OceanResponse(ExceptException(503), TRUE, TRUE, NoBody)
  ELSE OceanResponse(200, TRUE, TRUE, result)

\* The tail of both range handlers: return the list, or answer 500 for an
\* exception of the service.
RangeResult(result) ==
  IF result = RaisedResult
  THEN OceanResponse(ExceptException(500), TRUE, TRUE, NoBody)
  ELSE OceanResponse(200, TRUE, TRUE, result)

\* GET /range written like the date handlers, without the clause that
\* re-raises an HTTPException.
RangeGetHandlerNoReraise(cache, start, end) ==
  IF start > end
  THEN OceanResponse(ExceptException(400), TRUE, FALSE, NoBody)
  ELSE RangeResult(get_data_by_date_range(cache, start, end))

\* GET /range
RangeGetHandler(cache, start, end) ==
  IF start > end
  THEN OceanResponse(ExceptHTTPException(400), TRUE, FALSE, NoBody)
  ELSE RangeResult(get_data_by_date_range(cache, start, end))

\* DateRangeRequest.model_post_init raises ValueError when start_date is
\* later than end_date; pydantic reports it as a validation error of the
\* body.
DateRangeRequestValid(start, end) == ~(start > end)

\* POST /range: the body is validated before the handler runs (422); the
\* handler itself compares nothing.
RangePostHandler(cache, start, end) ==
  IF ~DateRangeRequestValid(start, end)
  THEN OceanResponse(422, FALSE, FALSE, NoBody)
  ELSE RangeResult(get_data_by_date_range(cache, start, end))

DateRoutes == {"GET /date", "POST /date", "GET /date/summary", "GET /public/date"}
RangeRoutes == {"GET /range", "POST /range"}
OceanRoutes == DateRoutes \cup RangeRoutes \cup {"POST /reload"}

\* POST /reload: reload_data(), then the success message; an exception of
\* reload_data would be answered 500.
ReloadHandler(outcome) ==
  IF outcome.exc # None
  THEN OceanResponse(ExceptException(500), TRUE, TRUE, NoBody)
  ELSE OceanResponse(200, TRUE, TRUE, [kind |-> "reloaded"])

OceanHandler(route, cache, d, e) ==
  CASE route \in {"GET /date", "POST /date", "GET /public/date"} ->
         AggregateHandler(get_data_by_date(cache, d))
    [] route = "GET /date/summary" ->
         AggregateHandler(get_data_summary_by_date(cache, d))
    [] route = "GET /range" -> RangeGetHandler(cache, d, e)
    [] route = "POST /range" -> RangePostHandler(cache, d, e)
    [] OTHER -> ReloadHandler(LoadOutcome(dataFileA))

\* Headers tried against the ocean-data router: none, and a valid token.
ValidHeader == [scheme |-> "Bearer",
                token |-> [wf |-> TRUE, text |-> "jwt", key |-> SECRET_KEY,
                           exp |-> MaxTime, sub |-> "a@b.com"]]
OceanHeaders == {[scheme |-> "none", token |-> NoToken], ValidHeader}

NoOceanReq == [route |-> None, hdr |-> [scheme |-> "none", token |-> NoToken],
               d |-> 0, e |-> 0, cache |-> <<>>]

\* One request: d is the date (or start_date), e the end_date of a range.
OceanRequest(route, hdr, d, e) ==
  LET dep == get_current_user(hdr, now)
      guarded == route # "GET /public/date" IN
  /\ oceanReq' = [route |-> route, hdr |-> hdr, d |-> d, e |-> e, cache |-> dataCache]
  /\ oceanResp' = IF guarded /\ dep.raised
                  THEN [OceanResponse(dep.status, FALSE, FALSE, NoBody)
                          EXCEPT !.wwwAuth = dep.wwwAuth]
                  ELSE OceanHandler(route, dataCache, d, e)
  /\ dataCache' = IF route = "POST /reload" /\ ~dep.raised
                  THEN load_data(dataFileA) ELSE dataCache
  /\ lastLoad' = IF route = "POST /reload" /\ ~dep.raised
                 THEN [file |-> dataFileA, exc |-> LoadOutcome(dataFileA).exc]
                 ELSE lastLoad
  /\ UNCHANGED <<authVars, mlVars, liteVars, dataFileA, loadPc>>

DoOceanRequest ==
  \E route \in OceanRoutes, hdr \in OceanHeaders, d \in QueryDays, e \in QueryDays :
    /\ (route \notin RangeRoutes => e = d)
    /\ (route = "POST /reload" => d = 1)
    /\ (hdr # ValidHeader /\ route # "GET /public/date" => d = 1 /\ e = 1)
    /\ OceanRequest(route, hdr, d, e)

\* The environment removes the dataset file.
RemoveDataFile ==
  /\ dataFileA.exists
  /\ dataFileA' = AbsentFile
  /\ UNCHANGED <<authVars, mlVars, liteVars, dataCache, oceanReq, oceanResp, loadPc, lastLoad>>

\* The environment overwrites the dataset file with bytes that are no CSV.
DamageDataFile ==
  /\ dataFileA.readable
  /\ dataFileA' = UnreadableFile
  /\ UNCHANGED <<authVars, mlVars, liteVars, dataCache, oceanReq, oceanResp, loadPc, lastLoad>>

\* The environment writes another dataset file.
ConcRow(date) == RowA(date, <<10>>, <<5>>, <<7>>, <<100>>, <<20>>)
ConcFiles ==
  {AbsentFile, UnreadableFile, File(ColumnsA \ {"Date"}, <<ConcRow(DateText(1))>>)}
  \cup {File(ColumnsA, <<ConcRow(date)>>) : date \in {DateText(1), DateText(MaxDay), BadDateText}}

ReplaceDataFile(file) ==
  /\ file # dataFileA
  /\ dataFileA' = file
  /\ UNCHANGED <<authVars, mlVars, liteVars, dataCache, oceanReq, oceanResp, loadPc, lastLoad>>

\* Handlers running in threads: one may start at any time.
StartsAnytime(pc) == TRUE

\* Every handler of the router is a coroutine of one event loop, which runs
\* it up to its next await; _load_data and the query handlers have none, so
\* a handler starts only when no load is under way.
LoopFree(pc) == pc = "idle"

\* POST /reload with a valid token, up to and including
\* "self._data_cache = pd.read_csv(...)"; complete when the file is absent
\* or read_csv raises.
ReloadStart ==
  /\ LoopFree(loadPc)
  /\ oceanReq' = [route |-> "POST /reload", hdr |-> ValidHeader, d |-> 1, e |-> 1,
                  cache |-> dataCache]
  /\ LET r == read_csv(dataFileA)
         failed == IF dataFileA.exists THEN ExceptLoad(r.exc)
                   ELSE [exc |-> None, cache |-> <<>>] IN
     IF ~dataFileA.exists \/ r.exc # None
     THEN /\ dataCache' = failed.cache
          /\ lastLoad' = [file |-> dataFileA, exc |-> failed.exc]
          /\ oceanResp' = ReloadHandler(failed)
          /\ loadPc' = "idle"
     ELSE /\ dataCache' = r.table
          /\ lastLoad' = [file |-> dataFileA, exc |-> None]
          /\ loadPc' = "assigned"
          /\ UNCHANGED oceanResp
  /\ UNCHANGED <<authVars, mlVars, liteVars, dataFileA>>

\* The rest of the same call: the Date column is converted in the table
\* that self._data_cache already names, then the handler returns.
ReloadFinish ==
  /\ loadPc = "assigned"
  /\ LET c == ConvertDates(dataCache, lastLoad.file.columns)
         out == IF c.exc # None THEN ExceptLoad(c.exc)
                ELSE [exc |-> None, cache |-> c.table] IN
     /\ dataCache' = out.cache
     /\ lastLoad' = [lastLoad EXCEPT !.exc = out.exc]
     /\ oceanResp' = ReloadHandler(out)
  /\ loadPc' = "idle"
  /\ UNCHANGED <<authVars, mlVars, liteVars, dataFileA, oceanReq>>

\* A query handler that starts while the loop is free.
ConcQuery ==
  /\ LoopFree(loadPc)
  /\ \E route \in {"GET /date", "GET /range"}, d \in QueryDays, e \in QueryDays :
       /\ (route = "GET /date" => e = d)
       /\ OceanRequest(route, ValidHeader, d, e)

(***************************************************************************)
(* Lightweight date endpoints, which read the file on every request:       *)
(* app/routers/ocean_data_simple.py (generation-B file), simple_api.py,    *)
(* simple_main.py and the fallback of main.py (generation-A file).         *)
(***************************************************************************)
\* Rows of the generation-B file.  The remaining columns are copied into
\* the records through .get() with defaults and steer nothing.
RowB(date, sst, chl, ssha, lon, lat, shark) ==
  [Date |-> date, SST_Value |-> sst, CHL_Concentration |-> chl, SSHA_Value |-> ssha,
   Longitude |-> lon, Latitude |-> lat, has_shark |-> shark]
FileRowsB ==
  {RowB(DateText(d), <<10>>, <<5>>, <<7>>, <<100>>, <<20>>, "1") : d \in Days}
  \cup {RowB(DateText(1), <<30>>, Missing, <<7>>, <<102>>, <<22>>, "0"),
        RowB(DateText(1), <<10>>, <<5>>, <<7>>, <<100>>, <<20>>, "true"),
        RowB(BadDateText, <<10>>, <<5>>, <<7>>, <<100>>, <<20>>, "1")}
ColumnsB == {"Date", "SST_Value", "CHL_Concentration", "SSHA_Value", "Longitude",
             "Latitude", "has_shark"}
FilesB ==
  {AbsentFile, UnreadableFile}
  \cup {File(ColumnsB, rows) : rows \in SeqsUpTo(FileRowsB, MaxFileRows)}
  \cup {File(ColumnsB \ {c},
              <<RowB(DateText(1), <<10>>, <<5>>, <<7>>, <<100>>, <<20>>, "1")>>) :
          c \in {"Date", "has_shark"}}

\* datetime.strptime(x, '%Y-%m-%d'): a date, ValueError for other text,
\* TypeError for a JSON value that is not text.
NumberValue == [fmt |-> "number", day |-> 0]
strptime(x) ==
  CASE x.fmt = "iso" -> [ok |-> TRUE, err |-> None, day |-> x.day]
    [] x.fmt = "number" -> [ok |-> FALSE, err |-> "TypeError", day |-> 0]
    [] OTHER -> [ok |-> FALSE, err |-> "ValueError", day |-> 0]
\* parse_date: strptime with every exception turned into None.
parse_date(x) == IF strptime(x).ok THEN <<strptime(x).day>> ELSE <<>>
\* int(text)
IntParse(t) == CASE t = "0" -> <<0>> [] t = "1" -> <<1>> [] OTHER -> <<>>

MsgFound == "query succeeded"
MsgNoData == "no data for this date"
ErrNoFile == "CSV file does not exist"
ErrRead == "failed to read data"

ResultA(d, rows, message, error) ==
  [date |-> d,
   sst_value |-> Mean(Column(rows, "SST_Value")),
   chl_value |-> Mean(Column(rows, "CHL_Value")),
   ssha_value |-> Mean(Column(rows, "SSHA_Value")),
   data_count |-> Len(rows), message |-> message, error |-> error]

\* How a call ends: it returns a value, or an exception leaves it.
Returned(v) == [exc |-> None, value |-> v]
Raised(e) == [exc |-> e, value |-> NoBody]

\* The try block of simple_api.get_ocean_data_by_date (the same text in
\* simple_ocean_query.py): open() raises for an absent or unreadable file,
\* row['Date'] and record['SST_Value'] raise KeyError without the column.
TryQueryA(file, d) ==
  IF ~file.exists THEN Raised("FileNotFoundError")
  ELSE IF ~file.readable THEN Raised("UnicodeDecodeError")
  ELSE IF file.rows # <<>> /\ "Date" \notin file.columns THEN Raised("KeyError")
  ELSE LET matching == SelectSeq(file.rows, LAMBDA row : parse_date(row.Date) = <<d>>) IN
       IF matching = <<>> THEN Returned(ResultA(d, <<>>, MsgNoData, None))
       ELSE IF ~(ValueColumns \subseteq file.columns) THEN Raised("KeyError")
       ELSE Returned(ResultA(d, matching, MsgFound, None))

\* simple_api.get_ocean_data_by_date: the try block under its two except
\* clauses, FileNotFoundError and Exception.
get_ocean_data_by_date_A(file, d) ==
  LET o == TryQueryA(file, d) IN
  IF o.exc = None THEN o
  ELSE IF o.exc = "FileNotFoundError" THEN Returned(ResultA(d, <<>>, None, ErrNoFile))
  ELSE Returned(ResultA(d, <<>>, None, ErrRead))

ProcessedRecord(row) ==
  [longitude |-> row.Longitude, latitude |-> row.Latitude, sst_value |-> row.SST_Value,
   chl_value |-> row.CHL_Concentration, ssha_value |-> row.SSHA_Value,
   has_shark |-> IntParse(row.has_shark) # <<0>>]

\* The result with data_count taken from the matching rows and "records"
\* holding the shark records only.
ResultBSharkRecords(d, rows, message, error) ==
  LET records == [i \in DOMAIN rows |-> ProcessedRecord(rows[i])]
      shark_records == SelectSeq(records, LAMBDA r : r.has_shark) IN
  [date |-> d, data_count |-> Len(rows), records |-> shark_records,
   summary |-> [shark_count |-> Len(shark_records),
                no_shark_count |-> Len(SelectSeq(records, LAMBDA r : ~r.has_shark)),
                total_records |-> Len(shark_records),
                shark_presence_rate |-> IF records = <<>> THEN 0
                                        ELSE Round6(Len(shark_records), Len(records)),
                averages |-> [sst_value |-> Mean(Column(rows, "SST_Value")),
                              chl_value |-> Mean(Column(rows, "CHL_Concentration")),
                              ssha_value |-> Mean(Column(rows, "SSHA_Value")),
                              longitude |-> Mean(Column(rows, "Longitude")),
                              latitude |-> Mean(Column(rows, "Latitude"))]],
   message |-> message, error |-> error]

ResultB(d, rows, message, error) ==
  LET records == [i \in DOMAIN rows |-> ProcessedRecord(rows[i])]
      sharks == Len(SelectSeq(records, LAMBDA r : r.has_shark))
      no_sharks == Len(SelectSeq(records, LAMBDA r : ~r.has_shark)) IN
  [date |-> d, data_count |-> Len(records), records |-> records,
   summary |-> [shark_count |-> sharks, no_shark_count |-> no_sharks,
                total_records |-> Len(records),
                shark_presence_rate |-> IF records = <<>> THEN 0
                                        ELSE Round6(sharks, Len(records)),
                averages |-> [sst_value |-> Mean(Column(rows, "SST_Value")),
                              chl_value |-> Mean(Column(rows, "CHL_Concentration")),
                              ssha_value |-> Mean(Column(rows, "SSHA_Value")),
                              longitude |-> Mean(Column(rows, "Longitude")),
                              latitude |-> Mean(Column(rows, "Latitude"))]],
   message |-> message, error |-> error]

\* The try block of ocean_data_simple.get_ocean_data_by_date; in addition
\* int(record['has_shark']) raises ValueError for text that is no integer.
TryQueryB(file, d) ==
  IF ~file.exists THEN Raised("FileNotFoundError")
  ELSE IF ~file.readable THEN Raised("UnicodeDecodeError")
  ELSE IF file.rows # <<>> /\ "Date" \notin file.columns THEN Raised("KeyError")
  ELSE LET matching == SelectSeq(file.rows, LAMBDA row : parse_date(row.Date) = <<d>>) IN
       IF matching = <<>> THEN Returned(ResultB(d, <<>>, MsgNoData, None))
       ELSE IF "has_shark" \notin file.columns THEN Raised("KeyError")
       ELSE IF \E i \in DOMAIN matching : IntParse(matching[i].has_shark) = <<>>
       THEN Raised("ValueError")
       ELSE Returned(ResultB(d, matching, MsgFound, None))

\* The same function without its "except Exception" clause.
get_ocean_data_by_date_B_uncaught(file, d) ==
  LET o == TryQueryB(file, d) IN
  IF o.exc = "FileNotFoundError" THEN Returned(ResultB(d, <<>>, None, ErrNoFile))
  ELSE o

\* ocean_data_simple.get_ocean_data_by_date
get_ocean_data_by_date_B(file, d) ==
  LET o == TryQueryB(file, d) IN
  IF o.exc = None THEN o
  ELSE IF o.exc = "FileNotFoundError" THEN Returned(ResultB(d, <<>>, None, ErrNoFile))
  ELSE Returned(ResultB(d, <<>>, None, ErrRead))

LiteApps == {"ocean_data_simple", "simple_api", "simple_main", "main"}
PostApps == {"ocean_data_simple", "simple_api"}
LiteResponse(status, body) == [status |-> status, body |-> body]

\* Handlers with the single clause "except Exception".
ExceptClausesNoValueError(err) == ExceptException(500)

\* except ValueError -> 400; except Exception -> 500 (TypeError and the
\* HTTPExceptions raised in the body included).
ExceptClauses(err) == IF err = "ValueError" THEN 400 ELSE ExceptException(500)

\* Body of the GET and POST handlers of ocean_data_simple.py and
\* simple_api.py once the date text is in hand.
LiteQuery(app, x, fileA, fileB) ==
  LET parsed == strptime(x)
      result == IF app = "ocean_data_simple"
                THEN get_ocean_data_by_date_B(fileB, parsed.day)
                ELSE get_ocean_data_by_date_A(fileA, parsed.day) IN
  IF ~parsed.ok THEN LiteResponse(ExceptClauses(parsed.err), NoBody)
  ELSE IF result.exc # None THEN LiteResponse(ExceptClauses(result.exc), NoBody)
  ELSE IF result.value.error # None THEN LiteResponse(ExceptException(500), NoBody)
  ELSE LiteResponse(200, result.value)

\* GET /date/{target_date}, GET /ocean-data/{date}
LiteGet(app, x, fileA, fileB) == LiteQuery(app, x, fileA, fileB)

\* POST /date, POST /ocean-data: body is a JSON object.
LitePost(app, body, fileA, fileB) ==
  IF ~body.hasDate THEN LiteResponse(ExceptException(400), NoBody)
  ELSE LiteQuery(app, body.date, fileA, fileB)

\* GET /api/v1/ocean-data/query/{target_date} of simple_main.py and of the
\* fallback of main.py, which also averages the coordinates.
query_ocean_data_by_date(app, x, file) ==
  LET parsed == strptime(x)
      matching == SelectSeq(file.rows, LAMBDA row : strptime(row.Date).day = parsed.day)
      base == [status |-> "success", date |-> x,
               sst_value |-> Mean(Column(matching, "SST_Value")),
               chl_value |-> Mean(Column(matching, "CHL_Value")),
               ssha_value |-> Mean(Column(matching, "SSHA_Value")),
               data_count |-> Len(matching), message |-> MsgFound] IN
  IF ~parsed.ok THEN LiteResponse(400, NoBody)
  ELSE IF ~file.exists \/ ~file.readable THEN LiteResponse(500, NoBody)
  ELSE IF file.rows # <<>> /\ "Date" \notin file.columns THEN LiteResponse(500, NoBody)
  ELSE IF \E i \in DOMAIN file.rows : ~strptime(file.rows[i].Date).ok
       THEN LiteResponse(400, NoBody)
  ELSE IF matching = <<>> THEN LiteResponse(ExceptException(404), NoBody)
  ELSE IF ~(ValueColumns \subseteq file.columns) THEN LiteResponse(500, NoBody)
  ELSE LiteResponse(200,
         IF app = "main"
         THEN [status |-> base.status, date |-> base.date,
               sst_value |-> base.sst_value, chl_value |-> base.chl_value,
               ssha_value |-> base.ssha_value,
               longitude |-> Mean(Column(matching, "Longitude")),
               latitude |-> Mean(Column(matching, "Latitude")),
               data_count |-> base.data_count, message |-> base.message]
         ELSE base)

PathDates == {DateText(d) : d \in QueryDays} \cup {BadDateText}
NoDate == [fmt |-> "absent", day |-> 0]
Bodies == [hasDate : {TRUE}, date : PathDates \cup {NumberValue}]
          \cup {[hasDate |-> FALSE, date |-> NoDate]}

NoLiteReq == [app |-> None, method |-> None, body |-> [hasDate |-> FALSE, date |-> NoDate],
              fileA |-> AbsentFile,
              fileB |-> AbsentFile]

LiteRequest(app, method, body) ==
  /\ liteReq' = [app |-> app, method |-> method, body |-> body,
                 fileA |-> dataFileA, fileB |-> dataFileB]
  /\ liteResp' =
       IF app \in PostApps
       THEN IF method = "GET" THEN LiteGet(app, body.date, dataFileA, dataFileB)
            ELSE LitePost(app, body, dataFileA, dataFileB)
       ELSE query_ocean_data_by_date(app, body.date, dataFileA)
  /\ UNCHANGED <<authVars, mlVars, oceanVars, dataFileB, queryOut>>

\* A direct call of get_ocean_data_by_date, generation A or B.
NoQuery == [gen |-> None, d |-> 0, file |-> AbsentFile, out |-> Raised(None)]
CallQuery(gen, d) ==
  /\ queryOut' = IF gen = "A"
                 THEN [gen |-> gen, d |-> d, file |-> dataFileA,
                       out |-> get_ocean_data_by_date_A(dataFileA, d)]
                 ELSE [gen |-> gen, d |-> d, file |-> dataFileB,
                       out |-> get_ocean_data_by_date_B(dataFileB, d)]
  /\ UNCHANGED <<authVars, mlVars, oceanVars, dataFileB, liteReq, liteResp>>
DoCallQuery == \E gen \in {"A", "B"}, d \in QueryDays : CallQuery(gen, d)

DoLiteGet ==
  \E app \in LiteApps, x \in PathDates :
    LiteRequest(app, "GET", [hasDate |-> TRUE, date |-> x])

DoLitePost ==
  \E app \in PostApps, body \in Bodies : LiteRequest(app, "POST", body)

(***************************************************************************)
(* Token helpers of app/services/auth_service.py                           *)
(***************************************************************************)
\* The expires_delta argument: absent <<>>, or <<d>> time units.
ExpiresDeltas == {<<>>} \cup {<<d>> : d \in 0..TokenLife}

\* create_access_token(data, expires_delta): copies data, adds exp (now plus
\* expires_delta when that is truthy, timedelta(0) being falsy, else now plus
\* the default lifetime) and signs with SECRET_KEY.
create_access_token(sub, delta, t) ==
  [wf |-> TRUE, text |-> "jwt", key |-> SECRET_KEY,
   exp |-> IF delta # <<>> /\ delta[1] # 0 THEN t + delta[1] ELSE t + TokenLife,
   sub |-> sub]

\* verify_token with its except clause removed.
verify_token_uncaught(token, t) ==
  LET payload == jwt_decode(token, SECRET_KEY, t) IN
  IF ~payload.ok THEN Raised("JWTError")
  ELSE IF payload.sub = NoSub THEN Returned(None)
  ELSE Returned(payload.sub)

\* verify_token(token): payload.get("sub"), or None when the claim is missing
\* or jwt.decode raised JWTError.
verify_token(token, t) ==
  LET payload == jwt_decode(token, SECRET_KEY, t) IN
  IF ~payload.ok THEN Returned(None)
  ELSE IF payload.sub = NoSub THEN Returned(None)
  ELSE Returned(payload.sub)

NoIssued == [sub |-> NoSub, delta |-> <<>>, at |-> 0, token |-> NoToken]
NoVerified == [called |-> FALSE, token |-> NoToken, at |-> 0, out |-> Returned(None)]

\* The same claims signed with another secret.
Resign(token) == [token EXCEPT !.key = OtherKey]

CreateToken(sub, delta) ==
  /\ issued' = [sub |-> sub, delta |-> delta, at |-> now,
                token |-> create_access_token(sub, delta, now)]
  /\ UNCHANGED <<now, authReq, authResp, loggedOut, verified, loginVars, crudVars,
                 mlVars, oceanVars, liteVars>>

DoCreateToken == \E sub \in SubClaims, delta \in ExpiresDeltas : CreateToken(sub, delta)

VerifyToken(token) ==
  /\ verified' = [called |-> TRUE, token |-> token, at |-> now,
                  out |-> verify_token(token, now)]
  /\ UNCHANGED <<now, authReq, authResp, loggedOut, issued, loginVars, crudVars,
                 mlVars, oceanVars, liteVars>>

DoVerifyToken ==
  \E token \in {issued.token, Resign(issued.token)} \cup RawTokens : VerifyToken(token)

(***************************************************************************)
(* POST /auth/login: app/routers/auth.py                                   *)
(***************************************************************************)
\* A form field is absent <<>> or carries a text <<text>>.
Usernames == {"admin@example.com", "a@b.com", "nobody"}
Passwords == {"admin123", "wrong"}
FormUsernames == {<<>>} \cup {<<u>> : u \in Usernames}
FormPasswords == {<<>>} \cup {<<p>> : p \in Passwords}

\* authenticate_user(email, password): the fabricated admin for the one
\* hard-coded pair, None otherwise.
authenticate_user(email, password) ==
  IF email = "admin@example.com" /\ password = "admin123"
  THEN [id |-> 1, email |-> email, username |-> "admin", is_active |-> TRUE]
  ELSE NoUser

LoginResponse(status, token, type) ==
  [status |-> status, access_token |-> token, token_type |-> type]
NoLoginReq == [called |-> FALSE, username |-> <<>>, password |-> <<>>]
NoLoginResp == LoginResponse(0, None, None)

\* login with the commented-out call of authenticate_user restored: the
\* HTTPException(401) raised inside the try is rewrapped as a 401.
login_authenticating(username, password) ==
  IF authenticate_user(username, password) = NoUser
  THEN LoginResponse(401, None, None)
  ELSE LoginResponse(200, "example_jwt_token", "bearer")

\* The body of login: the fixed example token.
login(username, password) == LoginResponse(200, "example_jwt_token", "bearer")

\* OAuth2PasswordRequestForm = Depends(): both fields are required form
\* fields, a missing one is a 422 before the handler runs.
LoginEndpoint(username, password) ==
  IF username = <<>> \/ password = <<>> THEN LoginResponse(422, None, None)
  ELSE login(username[1], password[1])

Login(username, password) ==
  /\ loginReq' = [called |-> TRUE, username |-> username, password |-> password]
  /\ loginResp' = LoginEndpoint(username, password)
  /\ UNCHANGED <<now, authReq, authResp, loggedOut, tokenVars, crudVars,
                 mlVars, oceanVars, liteVars>>

DoLogin == \E username \in FormUsernames, password \in FormPasswords : Login(username, password)

\* The client presents the access_token of the last login response.
LoginToken == [wf |-> FALSE, text |-> loginResp.access_token, key |-> OtherKey,
               exp |-> 0, sub |-> NoSub]
UseLoginToken ==
  /\ loginResp.status = 200
  /\ \E route \in AuthRoutes : AuthRequest(route, [scheme |-> "Bearer", token |-> LoginToken])

\* A client that holds a token issued by create_access_token calls
\* POST /auth/refresh with it.
RefreshIssuedToken ==
  AuthRequest("/auth/refresh",
              [scheme |-> "Bearer", token |-> create_access_token("a@b.com", <<>>, now)])

\* The client presents the access_token of the refresh response it just got.
RefreshedToken == [wf |-> FALSE, text |-> authResp.body, key |-> OtherKey,
                   exp |-> 0, sub |-> NoSub]
UseRefreshedToken ==
  /\ authReq.route = "/auth/refresh" /\ authResp.handlerRan
  /\ \E route \in AuthRoutes : AuthRequest(route, [scheme |-> "Bearer", token |-> RefreshedToken])

(***************************************************************************)
(* Users and items routers: app/routers/users.py, app/routers/items.py     *)
(***************************************************************************)
Routers == {"users", "items"}
Ids == 1..MaxId

\* The example records the handlers return (item titles in translation).
ExampleRecord(router, id, name, owner) ==
  IF router = "users"
  THEN [id |-> id, email |-> name, is_active |-> TRUE]
  ELSE [id |-> id, title |-> name, is_active |-> TRUE, owner_id |-> owner]
FirstName(router) == IF router = "users" THEN "user1@example.com" ELSE "NASA lunar exploration project"
SecondName(router) == IF router = "users" THEN "user2@example.com" ELSE "Mars colony planning"
UpdatedName(router) == IF router = "users" THEN "updated@example.com" ELSE "updated item"

\* A JSON body: ok is the outcome of schema validation, name the email of a
\* user or the title of an item, absent <<>> where the schema allows.
CrudBodies == [ok : BOOLEAN, name : {<<>>, <<"new@example.com">>}]
NoCrudBody == [ok |-> FALSE, name |-> <<>>]
BodyValid(method, body) ==
  body.ok /\ (method = "POST" => body.name # <<>>)

CrudResponse(status, body) == [status |-> status, body |-> body]

\* get_users / get_items
ListHandler(router, user) ==
  CrudResponse(200, << ExampleRecord(router, 1, FirstName(router), user.id),
                       ExampleRecord(router, 2, SecondName(router), user.id) >>)

\* get_user / get_item backed by a store that the writes change.
GetHandlerStored(router, id, user) ==
  IF id = 1 /\ <<router, "DELETE">> \notin crudLog
  THEN CrudResponse(200, << ExampleRecord(router, 1, FirstName(router), user.id) >>)
  ELSE IF id = 3 /\ <<router, "POST">> \in crudLog
  THEN CrudResponse(200, << ExampleRecord(router, 3, "new@example.com", user.id) >>)
  ELSE CrudResponse(404, <<>>)

\* get_user / get_item
GetHandler(router, id, user) ==
  IF id = 1
  THEN CrudResponse(200, << ExampleRecord(router, 1, FirstName(router), user.id) >>)
  ELSE CrudResponse(404, <<>>)

\* create_user / create_item
CreateHandler(router, body, user) ==
  CrudResponse(201, << ExampleRecord(router, 3, body.name[1], user.id) >>)

\* update_user / update_item
UpdateHandler(router, id, body, user) ==
  CrudResponse(200, << ExampleRecord(router, id,
      IF body.name # <<>> THEN body.name[1] ELSE UpdatedName(router), user.id) >>)

\* delete_user / delete_item
DeleteHandler(router, id) == CrudResponse(204, <<>>)

CrudHandler(router, method, id, body, user) ==
  CASE method = "LIST" -> ListHandler(router, user)
    [] method = "GET" -> GetHandler(router, id, user)
    [] method = "POST" -> CreateHandler(router, body, user)
    [] method = "PUT" -> UpdateHandler(router, id, body, user)
    [] OTHER -> DeleteHandler(router, id)

\* One request: the get_current_user dependency, validation of the body,
\* then the handler.
CrudEndpoint(router, method, id, body, hdr, t) ==
  LET dep == get_current_user(hdr, t) IN
  IF dep.raised THEN CrudResponse(dep.status, <<>>)
  ELSE IF method \in {"POST", "PUT"} /\ ~BodyValid(method, body) THEN CrudResponse(422, <<>>)
  ELSE CrudHandler(router, method, id, body, dep.user)

NoCrudReq == [router |-> None, method |-> None, id |-> 0, body |-> NoCrudBody,
              hdr |-> [scheme |-> "none", token |-> NoToken]]

CrudRequest(router, method, id, body, hdr) ==
  LET resp == CrudEndpoint(router, method, id, body, hdr, now) IN
  /\ crudReq' = [router |-> router, method |-> method, id |-> id, body |-> body, hdr |-> hdr]
  /\ crudResp' = resp
  /\ crudLog' = IF resp.status \in {201, 204} /\ (method = "POST" \/ id = 1)
                THEN crudLog \cup {<<router, method>>} ELSE crudLog
  /\ UNCHANGED <<now, authReq, authResp, loggedOut, tokenVars, loginVars,
                 mlVars, oceanVars, liteVars>>

\* Callers present a valid bearer token or no Authorization header.
ValidToken == [wf |-> TRUE, text |-> "jwt", key |-> SECRET_KEY, exp |-> MaxTime,
               sub |-> "a@b.com"]
CrudHeaders == {[scheme |-> "Bearer", token |-> ValidToken],
                [scheme |-> "none", token |-> NoToken]}

DoCrudRead ==
  \E router \in Routers, hdr \in CrudHeaders :
    \/ CrudRequest(router, "LIST", 0, NoCrudBody, hdr)
    \/ \E id \in Ids : CrudRequest(router, "GET", id, NoCrudBody, hdr)

DoCrudWrite ==
  \E router \in Routers, hdr \in CrudHeaders :
    \/ \E body \in CrudBodies : CrudRequest(router, "POST", 3, body, hdr)
    \/ \E id \in Ids, body \in CrudBodies : CrudRequest(router, "PUT", id, body, hdr)
    \/ \E id \in Ids : CrudRequest(router, "DELETE", id, NoCrudBody, hdr)

InitAuth ==
  /\ now = 0
  /\ crudReq = NoCrudReq
  /\ crudResp = CrudResponse(0, <<>>)
  /\ crudLog = {}
  /\ authReq = NoAuthReq
  /\ authResp = NoAuthResp
  /\ loggedOut = {}
  /\ issued = NoIssued
  /\ verified = NoVerified
  /\ loginReq = NoLoginReq
  /\ loginResp = NoLoginResp

(***************************************************************************)
(* Upload preprocessing: data_processor.py                                 *)
(***************************************************************************)
\* OceanDataProcessor.features, cut down to the two coordinates and one
\* value column, in the order of the list.
Features == <<"Longitude", "Latitude", "SST_Value", "Day_of_Year">>
UploadColumns == {"Date", "Longitude", "Latitude", "has_shark", "SST_Value", "Day_of_Year"}

\* An upload: text that read_csv cannot parse, or a header and nrows rows;
\* dateOk says that the cells of a Date column are dates, emptyColumn that
\* every cell of the SST_Value column is missing.
CsvTexts ==
  {[parses |-> FALSE, columns |-> {}, nrows |-> 0, dateOk |-> TRUE, emptyColumn |-> FALSE]}
  \cup [parses : {TRUE}, columns : SUBSET UploadColumns, nrows : 0..MaxRows,
        dateOk : BOOLEAN, emptyColumn : BOOLEAN]

\* The outcome of the pipeline: the rows and feature columns of the final
\* data frame, or the exception that ended it.
Frame(features, cols, n) ==
  [exc |-> None, features |-> features, columns |-> cols, nrows |-> n]
Failed(exc) == [exc |-> exc, features |-> <<>>, columns |-> {}, nrows |-> 0]

\* The pipeline without the two synthesized columns.
SynthesizeNothing(cols) == cols

\* "if 'Date' not in df.columns: df['Date'] = ..." and the same for
\* has_shark.
Synthesize(cols) == cols \cup {"Date", "has_shark"}

RequiredCols == {"Date", "Longitude", "Latitude", "has_shark"}

\* add_time_features: the columns Day_of_Year and Month are computed from
\* Date, replacing columns of these names.
add_time_features(cols) == cols \cup {"Day_of_Year", "Month"}

\* filter_features looking at the columns add_time_features leaves.
filter_features_with_time_features(features, cols) ==
  IF ~(RequiredCols \subseteq cols) THEN [exc |-> "ValueError", features |-> features]
  ELSE [exc |-> None,
        features |-> SelectSeq(features, LAMBDA f : f \in add_time_features(cols))]

\* filter_features on a processor whose self.features is "features":
\* ValueError unless Date, Longitude, Latitude and has_shark are columns,
\* raised before self.features is assigned; otherwise self.features becomes
\* the listed names that are columns. The result holds self.features as the
\* call leaves it.
filter_features(features, cols) ==
  IF ~(RequiredCols \subseteq cols) THEN [exc |-> "ValueError", features |-> features]
  ELSE [exc |-> None, features |-> SelectSeq(features, LAMBDA f : f \in cols)]

\* get_features_for_prediction / feature_names: the names of self.features
\* that are columns of the data frame.
get_features_for_prediction(features, cols) == SelectSeq(features, LAMBDA f : f \in cols)

\* impute_missing_values / final_imputation: the imputer drops a numeric
\* column without any value, and assigning its narrower result raises.
Impute(csv, features) ==
  IF csv.emptyColumn /\ csv.nrows > 0 /\ "SST_Value" \in csv.columns
     /\ \E i \in DOMAIN features : features[i] = "SST_Value"
  THEN "ValueError" ELSE None

\* augment_data appends the generated negative samples; none without a row
\* labelled has_shark = 1.
Augment(csv, n, extra) ==
  IF "has_shark" \in csv.columns /\ n > 0 THEN n + extra ELSE n

\* The try block of process_uploaded_csv.
TryProcess(csv, enable_augmentation, extra) ==
  IF ~csv.parses THEN Failed("ParserError")
  ELSE LET cols == Synthesize(csv.columns) IN
    IF "Date" \in csv.columns /\ csv.nrows > 0 /\ ~csv.dateOk THEN Failed("ValueError")
    ELSE LET ff == filter_features(Features, cols) IN
      IF ff.exc # None THEN Failed(ff.exc)
      ELSE IF Impute(csv, ff.features) # None THEN Failed(Impute(csv, ff.features))
      ELSE Frame(ff.features, add_time_features(cols),
                 IF enable_augmentation THEN Augment(csv, csv.nrows, extra)
                 ELSE csv.nrows)

\* The triple process_uploaded_csv returns, each part absent <<>> or
\* present; exc is an exception that leaves the function.
Triple(features, names, error) ==
  [exc |-> None, features |-> features, names |-> names, error |-> error]

\* "except Exception as e: return None, None, f'...{str(e)}'"
ExceptProcess(exc) == Triple(<<>>, <<>>, <<exc>>)

process_uploaded_csv(csv, enable_augmentation, extra) ==
  LET df == TryProcess(csv, enable_augmentation, extra) IN
  IF df.exc # None THEN ExceptProcess(df.exc)
  ELSE Triple(<<[nrows |-> df.nrows,
                  ncols |-> Len(get_features_for_prediction(df.features, df.columns))]>>,
              <<get_features_for_prediction(df.features, df.columns)>>, <<>>)

\* self.features of the temporary processor when process_uploaded_csv
\* returns: absent <<>> when read_csv raised before it was constructed.
ProcessorFeatures(csv) ==
  IF ~csv.parses THEN <<>>
  ELSE IF "Date" \in csv.columns /\ csv.nrows > 0 /\ ~csv.dateOk THEN <<Features>>
  ELSE <<filter_features(Features, Synthesize(csv.columns)).features>>

NoProcOut == [called |-> FALSE, csv |-> [parses |-> FALSE, columns |-> {}, nrows |-> 0,
                                         dateOk |-> TRUE, emptyColumn |-> FALSE],
              out |-> Triple(<<>>, <<>>, <<>>), processor |-> <<>>]

CallProcess(csv, enable_augmentation, extra) ==
  /\ procOut' = [called |-> TRUE, csv |-> csv,
                 out |-> process_uploaded_csv(csv, enable_augmentation, extra),
                 processor |-> ProcessorFeatures(csv)]
  /\ UNCHANGED <<authVars, oceanVars, liteVars, mlVariant, modelFile, mlCache, mlSlots,
                 mlResp, fileReads, reloadCalls, mlCalls, loadBeforeReload, fileEverBad,
                 pipe, mergedFile, mergeOut, boot, probe, augOut>>

DoCallProcess ==
  \E csv \in CsvTexts, enable_augmentation \in BOOLEAN, extra \in 0..1 :
    CallProcess(csv, enable_augmentation, extra)

(***************************************************************************)
(* OceanDataProcessor.process_data, one step at a time                     *)
(***************************************************************************)
Steps == <<"load_data", "filter_date_range", "filter_features", "add_time_features",
           "impute_missing_values", "augment_data", "final_imputation">>
StepNames == {Steps[i] : i \in DOMAIN Steps}

\* process_data entering augment_data whatever enable_augmentation is.
StepAfterAugmenting(step, enable_augmentation) ==
  IF step = "final_imputation" THEN "done"
  ELSE Steps[(CHOOSE i \in DOMAIN Steps : Steps[i] = step) + 1]

\* The statement process_data goes to when "step" has returned.
StepAfter(step, enable_augmentation) ==
  IF step = "final_imputation" THEN "done"
  ELSE IF step = "impute_missing_values" /\ ~enable_augmentation THEN "final_imputation"
  ELSE Steps[(CHOOSE i \in DOMAIN Steps : Steps[i] = step) + 1]

IdlePipe ==
  [pc |-> "idle", enable_augmentation |-> FALSE,
   csv |-> [parses |-> FALSE, columns |-> {}, nrows |-> 0, dateOk |-> TRUE,
            emptyColumn |-> FALSE],
   trace |-> <<>>, exc |-> None, features |-> Features, columns |-> {}, nrows |-> 0]

\* One method of the processor applied to the data frame of the run: the
\* exception it raises, or the frame and self.features it leaves.
RunStep(p, extra) ==
  LET ok(cols, features, n) == [exc |-> None, columns |-> cols, features |-> features, nrows |-> n]
      raise(e) == [exc |-> e, columns |-> p.columns, features |-> p.features, nrows |-> p.nrows]
  IN
  CASE p.pc = "load_data" ->
         IF ~p.csv.parses THEN raise("ParserError")
         ELSE ok(p.csv.columns, p.features, p.csv.nrows)
    [] p.pc = "filter_date_range" ->
         IF "Date" \notin p.columns THEN raise("KeyError")
         ELSE IF p.nrows > 0 /\ ~p.csv.dateOk THEN raise("ValueError")
         ELSE ok(p.columns, p.features, p.nrows)
    [] p.pc = "filter_features" ->
         LET ff == filter_features(p.features, p.columns) IN
         IF ff.exc # None THEN raise(ff.exc) ELSE ok(p.columns, ff.features, p.nrows)
    [] p.pc = "add_time_features" -> ok(add_time_features(p.columns), p.features, p.nrows)
    [] p.pc = "impute_missing_values" ->
         IF Impute(p.csv, p.features) # None THEN raise(Impute(p.csv, p.features))
         ELSE ok(p.columns, p.features, p.nrows)
    [] p.pc = "augment_data" -> ok(p.columns, p.features, Augment(p.csv, p.nrows, extra))
    [] p.pc = "final_imputation" -> ok(p.columns, p.features, p.nrows)

\* process_data(enable_augmentation) is called on a processor for a file.
PipeStart(csv, enable_augmentation) ==
  /\ pipe.pc \notin StepNames
  /\ pipe' = [IdlePipe EXCEPT !.pc = "load_data", !.csv = csv,
                              !.enable_augmentation = enable_augmentation]
  /\ UNCHANGED <<authVars, oceanVars, liteVars, mlVariant, modelFile, mlCache, mlSlots,
                 mlResp, fileReads, reloadCalls, mlCalls, loadBeforeReload, fileEverBad,
                 procOut, mergedFile, mergeOut, boot, probe, augOut>>
DoPipeStart ==
  \E csv \in CsvTexts, enable_augmentation \in BOOLEAN : PipeStart(csv, enable_augmentation)

\* The next statement of process_data runs; an exception leaves process_data.
PipeStep(extra) ==
  /\ pipe.pc \in StepNames
  /\ LET r == RunStep(pipe, extra) IN
     pipe' = [pipe EXCEPT !.trace = Append(@, pipe.pc), !.exc = r.exc,
                          !.pc = IF r.exc # None THEN "raised"
                                 ELSE StepAfter(pipe.pc, pipe.enable_augmentation),
                          !.columns = r.columns, !.features = r.features,
                          !.nrows = r.nrows]
  /\ UNCHANGED <<authVars, oceanVars, liteVars, mlVariant, modelFile, mlCache, mlSlots,
                 mlResp, fileReads, reloadCalls, mlCalls, loadBeforeReload, fileEverBad,
                 procOut, mergedFile, mergeOut, boot, probe, augOut>>
DoPipeStep == \E extra \in 0..1 : PipeStep(extra)

(***************************************************************************)
(* merge_shark_data.py                                                     *)
(***************************************************************************)
\* A CSV file of the script: absent, or text that read_csv parses or not;
\* "labelled" is the has_shark cell its rows already carry, <<>> when the
\* file has no such column; rows are the remaining cells of each data row.
RowLists(a, b) == {<<>>, <<a>>, <<a, b>>, <<b, a>>}
AbsentCsv == [exists |-> FALSE, parses |-> FALSE, labelled |-> <<>>, rows |-> <<>>]
CsvFiles(a, b) ==
  {AbsentCsv, [AbsentCsv EXCEPT !.exists = TRUE]}
  \cup [exists : {TRUE}, parses : {TRUE}, labelled : {<<>>, <<0>>}, rows : RowLists(a, b)]
SharkFiles == CsvFiles("shark1", "shark2")
RandomFiles == CsvFiles("random1", "random2")

\* df['has_shark'] = label on the frame read from a file.
Labelled(file, label) == [i \in DOMAIN file.rows |-> [row |-> file.rows[i], has_shark |-> label]]

\* The script concatenating [random_df, shark_df].
merge_random_first(shark, random, before) ==
  IF ~shark.exists \/ ~random.exists THEN [ret |-> FALSE, exc |-> None, output |-> before]
  ELSE IF ~shark.parses \/ ~random.parses THEN [ret |-> FALSE, exc |-> None, output |-> before]
  ELSE [ret |-> TRUE, exc |-> None, output |-> <<Labelled(random, 0) \o Labelled(shark, 1)>>]

\* merge_shark_data: the value returned, the exception that leaves the
\* function, and the output file (absent <<>>, or <<rows>>) afterwards.
merge_shark_data(shark, random, before) ==
  IF ~shark.exists THEN [ret |-> FALSE, exc |-> None, output |-> before]
  ELSE IF ~random.exists THEN [ret |-> FALSE, exc |-> None, output |-> before]
  ELSE IF ~shark.parses \/ ~random.parses
  THEN [ret |-> FALSE, exc |-> None, output |-> before]
  ELSE [ret |-> TRUE, exc |-> None, output |-> <<Labelled(shark, 1) \o Labelled(random, 0)>>]

NoMergeOut == [called |-> FALSE, shark |-> AbsentCsv, random |-> AbsentCsv,
               before |-> <<>>, ret |-> FALSE, exc |-> None]

\* The script is run with the two input files in one of their states.
Merge(shark, random) ==
  LET r == merge_shark_data(shark, random, mergedFile) IN
  /\ mergedFile' = r.output
  /\ mergeOut' = [called |-> TRUE, shark |-> shark, random |-> random,
                  before |-> mergedFile, ret |-> r.ret, exc |-> r.exc]
  /\ UNCHANGED <<authVars, oceanVars, liteVars, mlVariant, modelFile, mlCache, mlSlots,
                 mlResp, fileReads, reloadCalls, mlCalls, loadBeforeReload, fileEverBad,
                 procOut, pipe, boot, probe, augOut>>
DoMerge == \E shark \in SharkFiles, random \in RandomFiles : Merge(shark, random)

(***************************************************************************)
(* app/routers/__init__.py (reduced aggregator) and main.py                *)
(***************************************************************************)
\* An import statement inside "try: ... except ImportError:" succeeds or
\* raises ImportError.
ImportOutcomes == {"ok", "ImportError"}

\* Paths are their segments: <<"api", "v1">> is /api/v1, <<>> is /.
Route(method, path, endpoint, module) ==
  [method |-> method, path |-> path, endpoint |-> endpoint, module |-> module]
Prefixed(prefix, routes) == {[r EXCEPT !.path = prefix \o @] : r \in routes}

\* The routes ocean_data_simple.router and ml_prediction_simple.router declare.
OceanSimpleRouter ==
  {Route("GET", <<"date", "{target_date}">>, "get_ocean_data_by_date_simple", "ocean_data_simple"),
   Route("POST", <<"date">>, "get_ocean_data_post_simple", "ocean_data_simple"),
   Route("GET", <<"available-dates">>, "get_available_dates_simple", "ocean_data_simple")}
MLSimpleRouter ==
  {Route("POST", <<"predict">>, "predict_with_csv", "ml_prediction_simple"),
   Route("GET", <<"model-info">>, "get_model_info", "ml_prediction_simple"),
   Route("POST", <<"predict-batch">>, "predict_batch_data", "ml_prediction_simple"),
   Route("POST", <<"reload-model">>, "reload_model", "ml_prediction_simple")}

\* An aggregator that gives up on the ML router when the ocean-data router
\* is missing.
api_router_chained(ocean, ml) ==
  IF ocean # "ok" THEN {}
  ELSE Prefixed(<<"ocean-data">>, OceanSimpleRouter)
       \cup (IF ml = "ok" THEN Prefixed(<<"ml">>, MLSimpleRouter) ELSE {})

\* app.routers.api_router after the module body ran with the two imports
\* ending as given.
api_router(ocean, ml) ==
  (IF ocean = "ok" THEN Prefixed(<<"ocean-data">>, OceanSimpleRouter) ELSE {})
  \cup (IF ml = "ok" THEN Prefixed(<<"ml">>, MLSimpleRouter) ELSE {})

\* app.core.config.settings with its defaults, and main.SimpleSettings
\* (its PROJECT_NAME, Chinese in the source, is given in English).
Settings == [PROJECT_NAME |-> "NASA Hackathon API", API_V1_STR |-> <<"api", "v1">>]
SimpleSettings ==
  [PROJECT_NAME |-> "NASA Ocean Data and ML Prediction API", API_V1_STR |-> <<"api", "v1">>]

\* The routes main.py declares under "if not router_loaded:".
FallbackRoutes ==
  {Route("GET", <<"api", "v1", "ocean-data", "query", "{target_date}">>,
         "query_ocean_data_by_date", "main"),
   Route("GET", <<"api", "v1", "ocean-data", "available-dates">>, "get_available_dates", "main"),
   Route("GET", <<"simple-ocean-data", "{date}">>, "get_simple_ocean_data", "main"),
   Route("GET", <<"api", "v1", "ml", "model-info">>, "get_model_info", "main")}

\* main.py imported with the import of the settings module, of the
\* app.routers package and of its two router modules ending as given.
main(config, routers, ocean, ml) ==
  LET settings == IF config = "ok" THEN Settings ELSE SimpleSettings
      router_loaded == routers = "ok"
  IN [imports |-> [config |-> config, routers |-> routers, ocean |-> ocean, ml |-> ml],
      config_available |-> config = "ok",
      settings |-> settings,
      router_loaded |-> router_loaded,
      routes |-> (IF router_loaded
                  THEN Prefixed(settings.API_V1_STR, api_router(ocean, ml)) ELSE {})
                 \cup {Route("GET", <<>>, "root", "main"),
                       Route("GET", <<"health">>, "health_check", "main")}
                 \cup (IF ~router_loaded THEN FallbackRoutes ELSE {})]

\* root() greeting with the literal default project name.
root_default_name(app) ==
  [message |-> <<"Welcome to", Settings.PROJECT_NAME>>, status |-> "running",
   router_loaded |-> app.router_loaded]

\* root(): the message is the greeting followed by settings.PROJECT_NAME.
root(app) ==
  [message |-> <<"Welcome to", app.settings.PROJECT_NAME>>, status |-> "running",
   router_loaded |-> app.router_loaded]

health_check(app) ==
  [status |-> "healthy", service |-> app.settings.PROJECT_NAME,
   router_loaded |-> app.router_loaded]

\* What the handlers of the data routes answer depends on files that are
\* not part of this model.
HandlerStatuses == {200, 404, 500}
NoProbe == [path |-> <<"none">>, status |-> 0, endpoint |-> None, module |-> None,
            body |-> NoBody]

\* Routing of GET path: 404 without a route of this path, 405 when only
\* other methods are routed there, otherwise the endpoint runs.
Get(path, handlerStatus) ==
  LET here == {r \in boot.routes : r.path = path}
      gets == {r \in here : r.method = "GET"}
      r == CHOOSE x \in gets : TRUE
  IN
  /\ probe' =
       IF here = {} THEN [NoProbe EXCEPT !.path = path, !.status = 404]
       ELSE IF gets = {} THEN [NoProbe EXCEPT !.path = path, !.status = 405]
       ELSE [path |-> path, endpoint |-> r.endpoint, module |-> r.module,
             status |-> IF r.endpoint \in {"root", "health_check"} THEN 200 ELSE handlerStatus,
             body |-> IF r.endpoint = "root" THEN root(boot)
                      ELSE IF r.endpoint = "health_check" THEN health_check(boot)
                      ELSE NoBody]
  /\ UNCHANGED <<authVars, oceanVars, liteVars, mlVariant, modelFile, mlCache, mlSlots,
                 mlResp, fileReads, reloadCalls, mlCalls, loadBeforeReload, fileEverBad,
                 procOut, pipe, mergedFile, mergeOut, boot, augOut>>
ProbePaths ==
  {r.path : r \in Prefixed(<<"api", "v1">>, api_router("ok", "ok")) \cup FallbackRoutes}
  \cup {<<>>, <<"health">>, <<"api", "v1">>}
DoGet == \E path \in ProbePaths, handlerStatus \in HandlerStatuses : Get(path, handlerStatus)

\* The process is started again in an environment where the imports end
\* differently.
Restart(config, routers, ocean, ml) ==
  /\ boot' = main(config, routers, ocean, ml)
  /\ boot' # boot
  /\ probe' = NoProbe
  /\ UNCHANGED <<authVars, oceanVars, liteVars, mlVariant, modelFile, mlCache, mlSlots,
                 mlResp, fileReads, reloadCalls, mlCalls, loadBeforeReload, fileEverBad,
                 procOut, pipe, mergedFile, mergeOut, augOut>>
DoRestart ==
  \E config \in ImportOutcomes, routers \in ImportOutcomes, ocean \in ImportOutcomes,
     ml \in ImportOutcomes : Restart(config, routers, ocean, ml)

(***************************************************************************)
(* OceanDataProcessor.augment_data                                         *)
(***************************************************************************)
\* Positions are whole kilometres on a plane, standing for the degrees of
\* the source: grid_spacing 0.09 degrees is GridSpacingKm, and the distance
\* of two positions is compared by its square.
GridSpacingKm == 10
MinDistanceKm == 10
AugCoords == {0, 10, 30}
AugRows == [Longitude : AugCoords, Latitude : AugCoords, has_shark : {0, 1}]
AugFrames == UNION {[1..n -> AugRows] : n \in 0..MaxFileRows}

haversine_distance_squared(p, q) ==
  (p.Longitude - q.Longitude) * (p.Longitude - q.Longitude)
  + (p.Latitude - q.Latitude) * (p.Latitude - q.Latitude)

\* np.arange(lo, hi, GridSpacingKm)
RECURSIVE arange(_, _)
arange(lo, hi) == IF lo >= hi THEN <<>> ELSE <<lo>> \o arange(lo + GridSpacingKm, hi)

Smallest(df, col) == CHOOSE v \in {df[i][col] : i \in DOMAIN df} :
                       \A i \in DOMAIN df : v <= df[i][col]
Largest(df, col) == CHOOSE v \in {df[i][col] : i \in DOMAIN df} :
                      \A i \in DOMAIN df : v >= df[i][col]

\* A test that is content with one shark position farther away than the
\* minimum distance.
FarFromOne(p, shark_coords) ==
  \E i \in DOMAIN shark_coords :
    haversine_distance_squared(p, shark_coords[i]) > MinDistanceKm * MinDistanceKm

\* "min_distance > 10": the point is farther than the minimum distance
\* from every shark position.
FarFromAll(p, shark_coords) ==
  \A i \in DOMAIN shark_coords :
    haversine_distance_squared(p, shark_coords[i]) > MinDistanceKm * MinDistanceKm

\* The two nested loops over the grid, longitude outermost.
GridPoints(df) ==
  LET lons == arange(Smallest(df, "Longitude"), Largest(df, "Longitude"))
      lats == arange(Smallest(df, "Latitude"), Largest(df, "Latitude"))
  IN [k \in 1..(Len(lons) * Len(lats)) |->
        [Longitude |-> lons[((k - 1) \div Len(lats)) + 1],
         Latitude |-> lats[((k - 1) % Len(lats)) + 1], has_shark |-> 0]]

augment_data(df) ==
  LET shark_coords == SelectSeq(df, LAMBDA row : row.has_shark = 1) IN
  IF shark_coords = <<>> THEN df
  ELSE LET new_points == SelectSeq(GridPoints(df), LAMBDA p : FarFromAll(p, shark_coords)) IN
       IF new_points = <<>> THEN df ELSE df \o new_points

NoAugOut == [pc |-> "idle", df |-> <<>>, out |-> <<>>]

\* A processor holds a data frame; augment_data is called on it.
LoadFrame(df) ==
  /\ augOut.pc = "idle"
  /\ augOut' = [pc |-> "loaded", df |-> df, out |-> <<>>]
  /\ UNCHANGED <<authVars, oceanVars, liteVars, mlVariant, modelFile, mlCache, mlSlots,
                 mlResp, fileReads, reloadCalls, mlCalls, loadBeforeReload, fileEverBad,
                 procOut, pipe, mergedFile, mergeOut, boot, probe>>
DoLoadFrame == \E df \in AugFrames : LoadFrame(df)

CallAugment ==
  /\ augOut.pc = "loaded"
  /\ augOut' = [augOut EXCEPT !.pc = "done", !.out = augment_data(augOut.df)]
  /\ UNCHANGED <<authVars, oceanVars, liteVars, mlVariant, modelFile, mlCache, mlSlots,
                 mlResp, fileReads, reloadCalls, mlCalls, loadBeforeReload, fileEverBad,
                 procOut, pipe, mergedFile, mergeOut, boot, probe>>

InitMLWith(variants, files) ==
  /\ mlVariant \in variants
  /\ modelFile \in files
  /\ mlCache = NoModel
  /\ mlSlots = [s \in 1..MaxInFlight |-> IdleSlot]
  /\ mlResp = NoMLResp
  /\ procOut = NoProcOut
  /\ pipe = IdlePipe
  /\ mergedFile = <<>>
  /\ mergeOut = NoMergeOut
  /\ boot = main("ok", "ok", "ok", "ok")
  /\ probe = NoProbe
  /\ augOut = NoAugOut
  /\ fileReads = 0
  /\ reloadCalls = 0
  /\ mlCalls = 0
  /\ loadBeforeReload = FALSE
  /\ fileEverBad = (modelFile # "ok")

InitML == InitMLWith(Variants, FileStates)
QuietML == InitMLWith({"simple"}, {"ok"})

\* The service object is built at import time: __init__ runs _load_data.
InitOceanWith(files) ==
  /\ dataFileA \in files
  /\ dataCache = load_data(dataFileA)
  /\ loadPc = "idle"
  /\ lastLoad = [file |-> dataFileA, exc |-> LoadOutcome(dataFileA).exc]
  /\ oceanReq = NoOceanReq
  /\ oceanResp = OceanResponse(0, FALSE, FALSE, NoBody)
InitOcean == InitOceanWith(FilesA)
QuietOcean == InitOceanWith({AbsentFile})

InitLiteWith(files) ==
  /\ dataFileB \in files
  /\ liteReq = NoLiteReq
  /\ liteResp = LiteResponse(0, NoBody)
  /\ queryOut = NoQuery
InitLite == InitLiteWith(FilesB)
QuietLite == InitLiteWith({AbsentFile})

Init == InitAuth /\ InitML /\ InitOcean /\ InitLite

(***************************************************************************)
(* Specifications                                                          *)
(***************************************************************************)
NextAuth == DoAuthRequest \/ Tick

StartAuth == InitAuth /\ QuietML /\ QuietOcean /\ QuietLite
SpecAuth == StartAuth /\ [][NextAuth]_vars

\* One prediction request at a time; model-info, reload-model and changes of
\* the model file may fall between its two halves.
NextML ==
  \/ \E fn \in Filenames, X \in Uploads : MLStart(1, fn, X)
  \/ MLResume(1)
  \/ MLModelInfo
  \/ MLReload
  \/ \E s \in FileStates : SetModelFile(s)

StartML == InitAuth /\ InitML /\ QuietOcean /\ QuietLite
SpecML == StartML /\ [][NextML]_vars

\* Several prediction requests in flight, each uploading a well-named file
\* of the expected width.
ConcFilename == <<"a", ".", "c", "s", "v">>
NextMLConc ==
  \/ \E slot \in 1..MaxInFlight : MLStart(slot, ConcFilename, Upload(1, ModelWidth))
  \/ \E slot \in 1..MaxInFlight : MLResume(slot)
  \/ MLModelInfo
  \/ MLReload
  \/ \E s \in FileStates : SetModelFile(s)

SpecMLConc == StartML /\ [][NextMLConc]_vars

NextOcean == DoOceanRequest \/ RemoveDataFile \/ DamageDataFile

StartOcean == InitAuth /\ QuietML /\ InitOcean /\ QuietLite
SpecOcean == StartOcean /\ [][NextOcean]_vars

\* Reloads in two steps, queries and changes of the file in any order the
\* event loop allows.
NextOceanConc ==
  \/ ReloadStart
  \/ ReloadFinish
  \/ ConcQuery
  \/ \E file \in ConcFiles : ReplaceDataFile(file)

StartOceanConc == InitAuth /\ QuietML /\ InitOceanWith(ConcFiles) /\ QuietLite
SpecOceanConc == StartOceanConc /\ [][NextOceanConc]_vars

\* Direct calls of process_uploaded_csv.
NextUpload == DoCallProcess

\* Runs of process_data, one after the other.
NextPipe == DoPipeStart \/ DoPipeStep
SpecPipe == StartAuth /\ [][NextPipe]_vars

\* Runs of the merge script over changing input files.
NextMerge == DoMerge
SpecMerge == StartAuth /\ [][NextMerge]_vars

\* main.py is imported in some environment and answers GET requests.
NextBoot == DoRestart \/ DoGet
SpecBoot == StartAuth /\ [][NextBoot]_vars

\* One call of augment_data on a data frame.
NextAugment == DoLoadFrame \/ CallAugment
SpecAugment == StartAuth /\ [][NextAugment]_vars
SpecUpload == StartAuth /\ [][NextUpload]_vars

NextLite == DoLiteGet \/ DoLitePost


\* A request reads one of the two files; a behaviour varies one of them.
StartLite ==
  /\ InitAuth /\ QuietML
  /\ (InitOcean /\ QuietLite) \/ (QuietOcean /\ InitLite)
SpecLite == StartLite /\ [][NextLite]_vars

\* Direct calls of the lightweight query functions.
NextQuery == DoCallQuery
SpecQuery == StartLite /\ [][NextQuery]_vars

NextSession == DoSessionRequest \/ Tick
SpecSession == StartAuth /\ [][NextSession]_vars

\* Tokens are issued and verified as time passes.
NextToken == DoCreateToken \/ DoVerifyToken \/ Tick
SpecToken == StartAuth /\ [][NextToken]_vars

NextCrud == DoCrudRead \/ DoCrudWrite
SpecCrud == StartAuth /\ [][NextCrud]_vars

\* Logins, each followed by requests that present the token it returned.
NextLogin ==
  DoLogin \/ UseLoginToken \/ RefreshIssuedToken \/ UseRefreshedToken \/ Tick
SpecLogin == StartAuth /\ [][NextLogin]_vars

Next == NextAuth \/ NextCrud \/ NextSession \/ NextToken \/ NextLogin \/ NextML \/ NextMLConc \/ NextOcean
        \/ NextOceanConc \/ NextUpload \/ NextLite \/ NextQuery \/ NextPipe
        \/ NextMerge \/ NextBoot \/ NextAugment

Spec == Init /\ [][Next]_vars

(***************************************************************************)
(* Claims                                                                  *)
(***************************************************************************)

\* C1: every request to a route behind the current-user dependency either
\* carries an absent, malformed, expired, wrongly signed or sub-less token
\* and gets 401 with WWW-Authenticate: Bearer without the handler running,
\* or runs the handler with the fabricated user (id 1, example_user, active)
\* whose email is the token's sub claim.
TokenRejected(hdr, t) ==
  \/ hdr.scheme # "Bearer"
  \/ ~hdr.token.wf
  \/ hdr.token.key # SECRET_KEY
  \/ hdr.token.exp < t
  \/ ~IsString(hdr.token.sub)
C1_TwoOutcomes ==
  authReq.route # None =>
    IF TokenRejected(authReq.hdr, authReq.at)
    THEN authResp.status = 401 /\ authResp.wwwAuth /\ ~authResp.handlerRan
    ELSE /\ authResp.handlerRan
         /\ authResp.user = [id |-> 1, email |-> authReq.hdr.token.sub,
                             username |-> "example_user", is_active |-> TRUE]

\* C2: each of the four ML router variants answers a CSV-upload prediction
\* request whose file name does not end in .csv with status 400, whatever
\* the state of the model cache.
C2_NonCsvIs400 ==
  ( /\ mlVariant \in {"basic", "advanced", "enhanced", "simple"}
    /\ mlResp.kind = "predict"
    /\ ~EndsWith(Lower(mlResp.fn), DotCsv) )
  => mlResp.status = 400

\* C3: in every CSV-upload prediction endpoint the matrix handed to predict
\* has exactly w columns: the first w columns of the upload when k > w, the
\* k columns followed by w-k zero columns when k < w.
C3_WidthNormalised ==
  (mlResp.predictCalled /\ Width(mlResp.upload) >= 1) =>
    LET w == mlResp.model.n_features_in_
        U == mlResp.upload
        X == mlResp.X IN
    /\ DOMAIN X = DOMAIN U
    /\ \A i \in DOMAIN X :
         /\ Len(X[i]) = w
         /\ \A j \in 1..w : X[i][j] = IF j <= Len(U[i]) THEN U[i][j] ELSE 0

\* C4: while the model file stays present and loadable, the file is read
\* once by the first request that needs the model before any reload-model,
\* once per reload-model call, and by no other request.
C4_ReadsOncePerReload ==
  ~fileEverBad => fileReads = reloadCalls + Count(loadBeforeReload)
C4_Witness ==
  /\ ~fileEverBad
  /\ loadBeforeReload
  /\ reloadCalls = 1
  /\ fileReads = 2
  /\ mlCalls = 4

\* C5: with several prediction and reload-model requests in flight, the
\* cache holds nothing or the model loaded from the fixed path, and every
\* request that reaches predict (or holds a model across its suspension)
\* uses that fully loaded model.
C5_FullyLoadedModel ==
  /\ mlCache \in {NoModel, LoadedModel}
  /\ mlResp.predictCalled => mlResp.model = LoadedModel
  /\ \A slot \in DOMAIN mlSlots :
       (mlSlots[slot].pc = "suspended" /\ mlVariant # "basic")
         => mlSlots[slot].local = LoadedModel
C5_Witness ==
  /\ mlResp.predictCalled
  /\ mlResp.status = 200
  /\ mlCache = NoModel
  /\ fileReads >= 2
  /\ reloadCalls >= 1
  /\ \E slot \in DOMAIN mlSlots : mlSlots[slot].pc = "suspended"

(***************************************************************************)
(* C6: on the authenticated ocean-data router, a request to a date         *)
(* aggregate endpoint (GET /date/{d}, POST /date, GET /date/{d}/summary,   *)
(* GET /public/date/{d}) that reaches its handler while the service cache  *)
(* is empty is answered with 503.                                          *)
(***************************************************************************)
C6_EmptyCacheIs503 ==
  (oceanReq.route \in DateRoutes /\ oceanResp.handlerRan /\ oceanReq.cache = <<>>)
    => oceanResp.status = 503

(***************************************************************************)
(* C7: a GET /range request that passes the current-user dependency is     *)
(* answered with 400 without a call of the query service when start_date   *)
(* is later than end_date, and is never answered with 400 when start_date  *)
(* is not later than end_date.                                             *)
(***************************************************************************)
C7_GetRangeOrder ==
  (oceanReq.route = "GET /range" /\ ~get_current_user(oceanReq.hdr, now).raised) =>
    /\ (oceanReq.d > oceanReq.e => oceanResp.status = 400 /\ ~oceanResp.serviceCalled)
    /\ (oceanReq.d <= oceanReq.e => oceanResp.status # 400)

C7_Witness ==
  /\ oceanReq.route = "GET /range"
  /\ oceanReq.hdr = ValidHeader
  /\ oceanReq.d > oceanReq.e
  /\ oceanReq.cache # <<>>
  /\ oceanResp.status = 400
  /\ oceanResp.handlerRan
  /\ ~oceanResp.serviceCalled

(***************************************************************************)
(* C8: a POST /range request that passes the current-user dependency with  *)
(* start_date later than end_date is answered with 400, as GET /range is.  *)
(***************************************************************************)
C8_PostRangeOrder ==
  (oceanReq.route = "POST /range" /\ ~get_current_user(oceanReq.hdr, now).raised
     /\ oceanReq.d > oceanReq.e)
    => oceanResp.status = 400

(***************************************************************************)
(* C9: a date aggregate endpoint asked for a well-formed date that no row  *)
(* of a readable, non-empty dataset carries answers 200 with data_count 0  *)
(* and every averaged field absent (lightweight endpoints).                 *)
(***************************************************************************)
Readable(file) ==
  /\ file.exists
  /\ file.readable
  /\ file.columns \in {ColumnsA, ColumnsB}
  /\ file.rows # <<>>
  /\ \A i \in DOMAIN file.rows : file.rows[i].Date.fmt = "iso"
FileOf(req) == IF req.app = "ocean_data_simple" THEN req.fileB ELSE req.fileA
AbsentDateQuery(req) ==
  /\ req.app \in LiteApps
  /\ req.body.hasDate
  /\ req.body.date.fmt = "iso"
  /\ Readable(FileOf(req))
  /\ \A i \in DOMAIN FileOf(req).rows : FileOf(req).rows[i].Date.day # req.body.date.day
AveragesOf(resp) ==
  IF liteReq.app = "ocean_data_simple" THEN resp.body.summary.averages
  ELSE [sst_value |-> resp.body.sst_value, chl_value |-> resp.body.chl_value,
        ssha_value |-> resp.body.ssha_value]
C9_AbsentDateIsEmptySuccess ==
  AbsentDateQuery(liteReq) =>
    /\ liteResp.status = 200
    /\ liteResp.body.data_count = 0
    /\ \A f \in DOMAIN AveragesOf(liteResp) : AveragesOf(liteResp)[f] = Missing

(***************************************************************************)
(* C10: a POST date query with a JSON body (POST /date of the simple       *)
(* router, POST /ocean-data of simple_api) whose body has no date field    *)
(* is answered with 400.                                                   *)
(***************************************************************************)
C10_MissingDateIs400 ==
  (liteReq.method = "POST" /\ ~liteReq.body.hasDate) => liteResp.status = 400

(***************************************************************************)
(* C11: GET /date/{target_date} of the public (simple) ocean-data router   *)
(* answers 400 exactly when target_date is not parseable as YYYY-MM-DD,    *)
(* 500 exactly when the date parses and the query function returned a      *)
(* result carrying an error key, and 200 otherwise, a date that no row     *)
(* matches included.                                                       *)
(***************************************************************************)
C11_Parses(x) == x.fmt = "iso"
C11_SimpleGetStatus ==
  (liteReq.app = "ocean_data_simple" /\ liteReq.method = "GET") =>
    LET x == liteReq.body.date
        result == get_ocean_data_by_date_B(liteReq.fileB, x.day) IN
    /\ liteResp.status \in {200, 400, 500}
    /\ liteResp.status = 400 <=> ~C11_Parses(x)
    /\ liteResp.status = 500 <=> (C11_Parses(x) /\ result.value.error # None)
    /\ liteResp.status = 200 => liteResp.body = result.value

C11_Witness ==
  /\ liteReq.app = "ocean_data_simple"
  /\ liteReq.method = "GET"
  /\ Readable(liteReq.fileB)
  /\ AbsentDateQuery(liteReq)
  /\ liteResp.status = 200
  /\ liteResp.body.data_count = 0
  /\ liteResp.body.message = MsgNoData

(***************************************************************************)
(* C12: get_ocean_data_by_date of both generations never raises: whatever  *)
(* the date and the file (absent, unreadable, a column missing, a cell     *)
(* that does not parse) it returns a result carrying exactly one of the    *)
(* keys message and error, and a result carrying error has data_count 0    *)
(* and every averaged field absent.                                        *)
(***************************************************************************)
C12_Averages(gen, v) ==
  IF gen = "B" THEN v.summary.averages
  ELSE [sst_value |-> v.sst_value, chl_value |-> v.chl_value, ssha_value |-> v.ssha_value]
C12_QueryNeverRaises ==
  queryOut.gen # None =>
    LET v == queryOut.out.value IN
    /\ queryOut.out.exc = None
    /\ (v.message # None) # (v.error # None)
    /\ v.error # None =>
         /\ v.data_count = 0
         /\ \A f \in DOMAIN C12_Averages(queryOut.gen, v) :
              C12_Averages(queryOut.gen, v)[f] = Missing

C12_Witness ==
  /\ queryOut.gen = "B"
  /\ queryOut.file.readable
  /\ queryOut.file.columns = ColumnsB
  /\ \E i \in DOMAIN queryOut.file.rows :
       /\ queryOut.file.rows[i].Date = DateText(queryOut.d)
       /\ queryOut.file.rows[i].has_shark = "true"
  /\ queryOut.out.exc = None
  /\ queryOut.out.value.error = ErrRead

(***************************************************************************)
(* C13: in the generation-B date query, matching rows whose has_shark cell *)
(* is one of the strings true, 1, yes in any letter case are returned as   *)
(* records with has_shark = true and counted in shark_count.               *)
(***************************************************************************)
C13_TrueTexts == {"true", "True", "TRUE", "1", "yes", "Yes", "YES"}
C13_Matching(req) ==
  SelectSeq(req.fileB.rows, LAMBDA row : row.Date = req.body.date)
C13_TrueTextsAreSharks ==
  ( /\ liteReq.app = "ocean_data_simple"
    /\ liteReq.method = "GET"
    /\ liteReq.body.date.fmt = "iso"
    /\ Readable(liteReq.fileB)
    /\ C13_Matching(liteReq) # <<>>
    /\ \A i \in DOMAIN C13_Matching(liteReq) :
         C13_Matching(liteReq)[i].has_shark \in C13_TrueTexts )
  => /\ liteResp.status = 200
     /\ \A i \in DOMAIN liteResp.body.records : liteResp.body.records[i].has_shark
     /\ liteResp.body.summary.shark_count = Len(C13_Matching(liteReq))


\* The last verify_token call was applied to the token that the last
\* create_access_token call returned, not later than the token's exp.
C14_RoundTrip ==
  verified.called /\ issued.token # NoToken /\ verified.token = issued.token
C14_Unexpired == verified.at <= verified.token.exp
C14_Failure ==
  \/ ~verified.token.wf
  \/ verified.token.key # SECRET_KEY
  \/ verified.token.exp < verified.at

C15_LogoutInvalidatesNothing ==
  (authReq.hdr \in loggedOut /\ authReq.at <= authReq.hdr.token.exp) =>
    authResp.handlerRan

C15_Witness ==
  /\ authReq.hdr \in loggedOut
  /\ authReq.route = "/auth/me"
  /\ authResp.handlerRan
  /\ authResp.body = "a@b.com"

\* C16: every login that submits a username and a password gets the response
\* 200 with access_token "example_jwt_token" and token_type "bearer".
C16_LoginIgnoresCredentials ==
  (loginReq.called /\ loginReq.username # <<>> /\ loginReq.password # <<>>) =>
    loginResp = LoginResponse(200, "example_jwt_token", "bearer")

C16_Witness ==
  /\ loginReq.called
  /\ loginReq.username # <<>> /\ loginReq.password # <<>>
  /\ authenticate_user(loginReq.username[1], loginReq.password[1]) = NoUser
  /\ loginResp.access_token = "example_jwt_token"

C17_Authenticated == ~get_current_user(crudReq.hdr, now).raised

\* C17: whatever writes succeeded before, an authenticated GET / returns the
\* two example records, an authenticated GET /1 the first example record and
\* an authenticated GET of any other id 404.
C17_ReadsIgnoreWrites ==
  C17_Authenticated =>
    /\ crudReq.method = "LIST" =>
         crudResp = CrudResponse(200,
           << ExampleRecord(crudReq.router, 1, FirstName(crudReq.router), 1),
              ExampleRecord(crudReq.router, 2, SecondName(crudReq.router), 1) >>)
    /\ (crudReq.method = "GET" /\ crudReq.id = 1) =>
         crudResp = CrudResponse(200,
           << ExampleRecord(crudReq.router, 1, FirstName(crudReq.router), 1) >>)
    /\ (crudReq.method = "GET" /\ crudReq.id # 1) => crudResp = CrudResponse(404, <<>>)

C17_Witness ==
  /\ {<<"users", "POST">>, <<"users", "DELETE">>} \subseteq crudLog
  /\ crudReq.router = "users" /\ crudReq.method = "GET" /\ crudReq.id = 3
  /\ crudResp.status = 404

\* The file exists and parses: it is a CSV with a Date column whose cells
\* are all dates.
C18_Parses(file) ==
  /\ file.exists
  /\ file.readable
  /\ "Date" \in file.columns
  /\ \A i \in DOMAIN file.rows : file.rows[i].Date.fmt = "iso"
C18_Parsed(file) ==
  [i \in DOMAIN file.rows |->
     [file.rows[i] EXCEPT !.Date = [fmt |-> "date", day |-> file.rows[i].Date.day]]]

\* C18: no exception leaves _load_data, at construction or at a reload; the
\* cache is the parsed content of the file the last load saw when that file
\* existed and parsed, and empty otherwise, whatever it held before; with
\* the last load failed, get_data_by_date returns None for every date.
C18_LoadNeverRaises ==
  /\ lastLoad.exc = None
  /\ dataCache = (IF C18_Parses(lastLoad.file) THEN C18_Parsed(lastLoad.file) ELSE <<>>)
  /\ ~C18_Parses(lastLoad.file) =>
       \A d \in QueryDays : get_data_by_date(dataCache, d) = NoneResult

C18_Witness ==
  /\ oceanReq.route = "POST /reload"
  /\ oceanReq.hdr = ValidHeader
  /\ oceanReq.cache # <<>>
  /\ lastLoad.file.exists /\ ~C18_Parses(lastLoad.file)
  /\ dataCache = <<>>
  /\ oceanResp.status = 200

\* Every row of the table has its Date cell converted to a date.
C19_Converted(cache) ==
  \A i \in DOMAIN cache : "Date" \in DOMAIN cache[i] /\ cache[i].Date.fmt = "date"

C20_Success(out) == out.features # <<>> /\ out.names # <<>> /\ out.error = <<>>
C20_Error(out) == out.features = <<>> /\ out.names = <<>> /\ out.error # <<>>
\* Nothing but the Date and has_shark columns may be missing from the
\* upload, and no cell of it makes a later step fail.
C20_OtherwiseFine(csv) ==
  /\ csv.parses
  /\ {"Longitude", "Latitude"} \subseteq csv.columns
  /\ csv.dateOk
  /\ ~csv.emptyColumn

\* C20: no exception leaves process_uploaded_csv; it returns a matrix and a
\* name list without an error, or an error without the other two; and an
\* upload that is fine but for a missing Date column, a missing has_shark
\* column or both gets the matrix.
C20_ProcessNeverRaises ==
  procOut.called =>
    /\ procOut.out.exc = None
    /\ C20_Success(procOut.out) \/ C20_Error(procOut.out)
    /\ C20_OtherwiseFine(procOut.csv) => C20_Success(procOut.out)

C20_Witness ==
  /\ procOut.called
  /\ procOut.csv.columns = {"Longitude", "Latitude", "SST_Value"}
  /\ procOut.csv.nrows > 0
  /\ C20_Success(procOut.out)
  /\ procOut.out.names = << <<"Longitude", "Latitude", "SST_Value">> >>

C29_FixedTexts == {"example_jwt_token", "refreshed_jwt_token"}

\* C29: the access_token of every successful login is "example_jwt_token"
\* and that of every successful refresh "refreshed_jwt_token"; neither is a
\* result of create_access_token, and a protected endpoint called with
\* either as bearer token answers 401 without running its handler.
C29_FixedTokensRejected ==
  /\ loginResp.status = 200 => loginResp.access_token = "example_jwt_token"
  /\ (authReq.route = "/auth/refresh" /\ authResp.handlerRan) =>
       authResp.body = "refreshed_jwt_token"
  /\ (authReq.hdr.scheme = "Bearer" /\ authReq.hdr.token.text \in C29_FixedTexts) =>
       /\ \A sub \in SubClaims, delta \in ExpiresDeltas, t \in 0..MaxTime :
            create_access_token(sub, delta, t) # authReq.hdr.token
       /\ authResp.status = 401
       /\ ~authResp.handlerRan

C29_Witness ==
  /\ loginReq.called /\ loginResp.status = 200
  /\ authReq.hdr.scheme = "Bearer"
  /\ authReq.hdr.token.text = loginResp.access_token
  /\ authReq.route = "/auth/me"
  /\ authResp.status = 401

(***************************************************************************)
(* C28: a reload-model call whose load fails (model file absent or         *)
(* unreadable) discards the model cached before the call and leaves the    *)
(* cache empty; a failed load is never cached, so a later request that     *)
(* finds the cache empty loads again, and the load succeeds and is cached  *)
(* as soon as the file is loadable.                                        *)
(***************************************************************************)
C28_ReloadStep == reloadCalls' = reloadCalls + 1
C28_InfoStep ==
  /\ mlCalls' = mlCalls + 1 /\ reloadCalls' = reloadCalls /\ mlSlots' = mlSlots
  /\ mlResp'.kind = "model-info"
C28_FailedReloadStep ==
  (C28_ReloadStep /\ modelFile # "ok")
    => /\ mlCache' = NoModel
       /\ mlResp'.kind = "reload-model" /\ mlResp'.model = NoModel
       /\ mlResp'.status = IF mlVariant = "basic" THEN 500 ELSE 200
C28_LaterRequestStep ==
  ((C28_ReloadStep \/ C28_InfoStep) /\ (mlCache = NoModel \/ C28_ReloadStep))
    => /\ fileReads' = fileReads + Count(modelFile # "absent")
       /\ mlCache' = (IF modelFile = "ok" THEN LoadedModel ELSE NoModel)
       /\ mlResp'.model = mlCache'
C28_LoadableStep ==
  (mlCache = NoModel /\ modelFile = "ok" /\ fileReads' = fileReads + 1)
    => mlCache' = LoadedModel
C28_FailedLoadNotCached ==
  /\ [](mlCache \in {NoModel, LoadedModel})
  /\ [][C28_FailedReloadStep /\ C28_LaterRequestStep /\ C28_LoadableStep]_vars
C28_Witness ==
  /\ mlVariant = "simple"
  /\ reloadCalls = 1
  /\ mlResp.kind = "reload-model" /\ mlResp.model = NoModel
  /\ mlCache = NoModel
  /\ \E slot \in DOMAIN mlSlots :
       mlSlots[slot].pc = "suspended" /\ mlSlots[slot].local = LoadedModel

(***************************************************************************)
(* C26: on a non-empty cache, get_data_by_date_range(start, end) returns   *)
(* one aggregate for each distinct date d of the cache with                *)
(* start <= d <= end and no other, in strictly ascending date order; the   *)
(* data_count of each aggregate is the number of cached rows of its date   *)
(* and is the data_count get_data_by_date(d) reports; the data_counts add  *)
(* up to total_records.                                                    *)
(***************************************************************************)
C26_RowsOn(cache, d) == Cardinality({i \in DOMAIN cache : cache[i].Date = DateValue(d)})
C26_RangeResult(cache, start, end, r) ==
  LET dates == {r.data[i].date : i \in DOMAIN r.data} IN
  /\ r.kind = "list"
  /\ dates = {d \in start..end : C26_RowsOn(cache, d) > 0}
  /\ \A i, j \in DOMAIN r.data : i < j => r.data[i].date < r.data[j].date
  /\ \A i \in DOMAIN r.data :
       /\ r.data[i].data_count = C26_RowsOn(cache, r.data[i].date)
       /\ r.data[i].data_count = get_data_by_date(cache, r.data[i].date).data_count
  /\ SumSeq([i \in DOMAIN r.data |-> r.data[i].data_count]) = r.total_records
C26_RangeAggregates ==
  /\ \A start, end \in QueryDays :
       LET r == get_data_by_date_range(dataCache, start, end) IN
       (dataCache # <<>> /\ r # RaisedResult) => C26_RangeResult(dataCache, start, end, r)
  /\ (oceanReq.route \in RangeRoutes /\ oceanReq.cache # <<>> /\ oceanResp.status = 200)
       => C26_RangeResult(oceanReq.cache, oceanReq.d, oceanReq.e, oceanResp.body)
C26_Witness ==
  /\ oceanReq.route \in RangeRoutes
  /\ oceanReq.d < oceanReq.e
  /\ oceanResp.status = 200
  /\ Len(oceanReq.cache) = MaxFileRows
  /\ Len(oceanResp.body.data) = 1
  /\ oceanResp.body.total_records = 1
  /\ \E i \in DOMAIN oceanReq.cache : oceanReq.cache[i].Date.day < oceanReq.d

(***************************************************************************)
(* C27: every result of the generation-B date query satisfies              *)
(* shark_count + no_shark_count = total_records = data_count = the length  *)
(* of records; all of them are 0 in the no-data result and in every error  *)
(* result; shark_presence_rate is 0 whenever total_records is 0.           *)
(***************************************************************************)
C27_CountsAgree ==
  queryOut.gen = "B" =>
    LET v == queryOut.out.value IN
    /\ queryOut.out.exc = None
    /\ v.summary.shark_count + v.summary.no_shark_count = v.summary.total_records
    /\ v.summary.total_records = v.data_count
    /\ v.data_count = Len(v.records)
    /\ (v.error # None \/ v.message = MsgNoData) => v.data_count = 0
    /\ v.summary.total_records = 0 => v.summary.shark_presence_rate = 0
C27_Witness ==
  /\ queryOut.gen = "B"
  /\ queryOut.out.value.message = MsgFound
  /\ queryOut.out.value.summary.shark_count = 1
  /\ queryOut.out.value.summary.no_shark_count = 1
  /\ Len(queryOut.out.value.records) = 2

(***************************************************************************)
(* C30: the feature-name list process_uploaded_csv returns is the          *)
(* canonical feature names that were column headers of the upload, in      *)
(* canonical order, and the matrix has one column per listed name;         *)
(* Day_of_Year is listed only when the upload had a Day_of_Year column;    *)
(* when filter_features raises for a missing required column the feature   *)
(* list of the processor is left as it was.                                *)
(***************************************************************************)
C30_Listed(names) == {names[i] : i \in DOMAIN names}
C30_FilterRaised(csv) ==
  /\ csv.parses
  /\ ~("Date" \in csv.columns /\ csv.nrows > 0 /\ ~csv.dateOk)
  /\ ~({"Longitude", "Latitude"} \subseteq csv.columns)
C30_FeatureNames ==
  procOut.called =>
    /\ procOut.out.names # <<>> =>
         LET names == procOut.out.names[1] IN
         /\ names = SelectSeq(Features, LAMBDA f : f \in procOut.csv.columns)
         /\ procOut.out.features[1].ncols = Len(names)
         /\ "Day_of_Year" \in C30_Listed(names) => "Day_of_Year" \in procOut.csv.columns
    /\ C30_FilterRaised(procOut.csv) =>
         /\ procOut.out.error = <<"ValueError">>
         /\ procOut.processor = <<Features>>
C30_Witness ==
  /\ procOut.called
  /\ procOut.csv.columns = {"Date", "Longitude", "Latitude", "SST_Value"}
  /\ procOut.csv.nrows > 0
  /\ procOut.out.names = << <<"Longitude", "Latitude", "SST_Value">> >>
  /\ procOut.out.features[1].ncols = 3
C30_RaisedWitness ==
  /\ procOut.called
  /\ procOut.csv.columns = {"Date", "Latitude", "Day_of_Year"}
  /\ procOut.out.error = <<"ValueError">>
  /\ procOut.processor = <<Features>>

(***************************************************************************)
(* C25: process_data runs its steps in the order load_data,                *)
(* filter_date_range, filter_features, add_time_features,                  *)
(* impute_missing_values, augment_data, final_imputation; augment_data     *)
(* runs exactly when enable_augmentation is true; a step that raises       *)
(* stops the run.                                                          *)
(***************************************************************************)
C25_Plan(enable_augmentation) ==
  SelectSeq(Steps, LAMBDA st : st # "augment_data" \/ enable_augmentation)
C25_IsPrefix(a, b) == Len(a) <= Len(b) /\ a = SubSeq(b, 1, Len(a))
C25_Ran(step) == \E i \in DOMAIN pipe.trace : pipe.trace[i] = step
C25_State ==
  /\ C25_IsPrefix(pipe.trace, C25_Plan(pipe.enable_augmentation))
  /\ pipe.pc = "done" =>
       /\ pipe.trace = C25_Plan(pipe.enable_augmentation)
       /\ C25_Ran("augment_data") <=> pipe.enable_augmentation
  /\ pipe.pc \in StepNames =>
       C25_Plan(pipe.enable_augmentation)[Len(pipe.trace) + 1] = pipe.pc
  /\ (pipe.exc # None) <=> (pipe.pc = "raised")
C25_AfterRaise ==
  pipe.pc = "raised" => (pipe' = pipe \/ pipe'.trace = <<>>)
C25_StepOrder == []C25_State /\ [][C25_AfterRaise]_vars
C25_Witness ==
  /\ pipe.pc = "raised"
  /\ pipe.enable_augmentation
  /\ pipe.trace = <<"load_data", "filter_date_range", "filter_features",
                    "add_time_features", "impute_missing_values">>
C25_DoneWitness ==
  /\ pipe.pc = "done"
  /\ ~pipe.enable_augmentation
  /\ Len(pipe.trace) = 6

(***************************************************************************)
(* C22: merge_shark_data, given a positive file of n rows and a negative   *)
(* file of m rows, writes n + m rows: first the n positive rows in order   *)
(* with has_shark = 1, then the m negative rows in order with              *)
(* has_shark = 0; when either input file is absent it returns failure      *)
(* without raising and writes no output.                                   *)
(***************************************************************************)
C22_Readable(file) == file.exists /\ file.parses
C22_MergeOrder ==
  mergeOut.called =>
    LET n == Len(mergeOut.shark.rows)
        k == Len(mergeOut.random.rows) IN
    /\ mergeOut.exc = None
    /\ (C22_Readable(mergeOut.shark) /\ C22_Readable(mergeOut.random)) =>
         /\ mergeOut.ret
         /\ mergedFile # <<>>
         /\ Len(mergedFile[1]) = n + k
         /\ \A i \in 1..n :
              mergedFile[1][i] = [row |-> mergeOut.shark.rows[i], has_shark |-> 1]
         /\ \A i \in 1..k :
              mergedFile[1][n + i] = [row |-> mergeOut.random.rows[i], has_shark |-> 0]
    /\ (~mergeOut.shark.exists \/ ~mergeOut.random.exists) =>
         /\ ~mergeOut.ret
         /\ mergedFile = mergeOut.before
C22_Witness ==
  /\ mergeOut.called /\ mergeOut.ret
  /\ mergeOut.shark.rows = <<"shark2", "shark1">>
  /\ mergeOut.shark.labelled = <<0>>
  /\ mergeOut.random.rows = <<"random1", "random2">>
  /\ Len(mergedFile[1]) = 4
C22_AbsentWitness ==
  /\ mergeOut.called /\ ~mergeOut.ret
  /\ mergeOut.shark.exists /\ ~mergeOut.random.exists
  /\ mergeOut.before = <<>> /\ mergedFile = <<>>

(***************************************************************************)
(* C23: in the main bootstrap, whether or not the settings module and the  *)
(* router aggregator were imported, GET / answers 200 with a message       *)
(* containing the project name in use, GET /health answers 200 with        *)
(* status = healthy, and GET on the versioned prefix root answers one of   *)
(* 200, 404, 405.                                                          *)
(***************************************************************************)
C23_NameInUse ==
  IF boot.imports.config = "ok" THEN "NASA Hackathon API"
  ELSE "NASA Ocean Data and ML Prediction API"
C23_RootAndHealth ==
  /\ probe.path = <<>> =>
       /\ probe.status = 200
       /\ \E i \in DOMAIN probe.body.message : probe.body.message[i] = C23_NameInUse
  /\ probe.path = <<"health">> => probe.status = 200 /\ probe.body.status = "healthy"
  /\ probe.path = <<"api", "v1">> => probe.status \in {200, 404, 405}
C23_Witness ==
  /\ boot.imports.config = "ImportError"
  /\ boot.imports.routers = "ImportError"
  /\ probe.path = <<>>
  /\ probe.status = 200
  /\ ~probe.body.router_loaded

(***************************************************************************)
(* C24: the reduced router aggregator mounts each of its two sub-routers   *)
(* (ocean-data, ML) exactly when the import of that sub-router succeeded,  *)
(* whatever happened to the other; main registers its inline fallback      *)
(* ocean-data and model-info routes exactly when the import of the         *)
(* aggregator failed, and never together with routes of the aggregator.    *)
(***************************************************************************)
C24_Has(routes, module) == \E r \in routes : r.module = module
C24_Fallback(routes) == \E r \in routes : r.module = "main" /\ r.endpoint \notin {"root", "health_check"}
C24_Aggregator ==
  \A ocean \in ImportOutcomes, ml \in ImportOutcomes :
    /\ C24_Has(api_router(ocean, ml), "ocean_data_simple") <=> ocean = "ok"
    /\ C24_Has(api_router(ocean, ml), "ml_prediction_simple") <=> ml = "ok"
C24_MountsFollowImports ==
  /\ C24_Aggregator
  /\ boot.router_loaded =>
       /\ C24_Has(boot.routes, "ocean_data_simple") <=> boot.imports.ocean = "ok"
       /\ C24_Has(boot.routes, "ml_prediction_simple") <=> boot.imports.ml = "ok"
  /\ C24_Fallback(boot.routes) <=> boot.imports.routers # "ok"
  /\ FallbackRoutes \subseteq boot.routes \/ FallbackRoutes \cap boot.routes = {}
  /\ ~(C24_Fallback(boot.routes)
       /\ (C24_Has(boot.routes, "ocean_data_simple") \/ C24_Has(boot.routes, "ml_prediction_simple")))
  /\ probe.module = "main" /\ probe.endpoint \notin {"root", "health_check"}
       => boot.imports.routers # "ok"
  /\ probe.module = "ml_prediction_simple"
       => boot.imports.routers = "ok" /\ boot.imports.ml = "ok"
  /\ probe.module = "ocean_data_simple"
       => boot.imports.routers = "ok" /\ boot.imports.ocean = "ok"
C24_Witness ==
  /\ boot.imports.routers = "ok"
  /\ boot.imports.ocean = "ImportError"
  /\ boot.imports.ml = "ok"
  /\ probe.path = <<"api", "v1", "ml", "model-info">>
  /\ probe.module = "ml_prediction_simple"
C24_FallbackWitness ==
  /\ boot.imports.routers = "ImportError"
  /\ probe.path = <<"api", "v1", "ml", "model-info">>
  /\ probe.module = "main"

(***************************************************************************)
(* C21: augment_data returns the original rows unchanged and in order,     *)
(* followed by the synthetic rows; every synthetic row has has_shark = 0   *)
(* and a grid coordinate farther than the minimum distance from every      *)
(* has_shark = 1 coordinate, so the number of has_shark = 1 rows is        *)
(* unchanged; the input is returned unchanged when it has no positive row  *)
(* or no grid point qualifies.                                             *)
(***************************************************************************)
C21_Positives(df) == {i \in DOMAIN df : df[i].has_shark = 1}
C21_Far(p, q) ==
  (p.Longitude - q.Longitude) * (p.Longitude - q.Longitude)
  + (p.Latitude - q.Latitude) * (p.Latitude - q.Latitude) > 100
C21_OnGrid(df, p) ==
  /\ \E i, j \in DOMAIN df, k \in 0..3 :
       p.Longitude = df[i].Longitude + 10 * k /\ p.Longitude < df[j].Longitude
       /\ \A l \in DOMAIN df : df[i].Longitude <= df[l].Longitude
  /\ \E i, j \in DOMAIN df, k \in 0..3 :
       p.Latitude = df[i].Latitude + 10 * k /\ p.Latitude < df[j].Latitude
       /\ \A l \in DOMAIN df : df[i].Latitude <= df[l].Latitude
C21_Qualifies(df, p) ==
  /\ C21_OnGrid(df, p)
  /\ \A i \in C21_Positives(df) : C21_Far(p, df[i])
C21_Candidates == [Longitude : {0, 10, 20}, Latitude : {0, 10, 20}, has_shark : {0}]
C21_AugmentAppends ==
  augOut.pc = "done" =>
    LET df == augOut.df
        out == augOut.out IN
    /\ Len(out) >= Len(df)
    /\ SubSeq(out, 1, Len(df)) = df
    /\ \A i \in (Len(df) + 1)..Len(out) :
         out[i].has_shark = 0 /\ C21_Qualifies(df, out[i])
    /\ Cardinality(C21_Positives(out)) = Cardinality(C21_Positives(df))
    /\ (C21_Positives(df) = {} \/ ~\E p \in C21_Candidates : C21_Qualifies(df, p))
         => out = df
C21_Witness ==
  /\ augOut.pc = "done"
  /\ Len(augOut.df) = 2
  /\ Cardinality(C21_Positives(augOut.df)) = 2
  /\ Len(augOut.out) = Len(augOut.df) + 7
C21_UnchangedWitness ==
  /\ augOut.pc = "done"
  /\ Len(augOut.df) = 2
  /\ C21_Positives(augOut.df) # {}
  /\ augOut.df[1].Longitude # augOut.df[2].Longitude
  /\ augOut.df[1].Latitude # augOut.df[2].Latitude
  /\ augOut.out = augOut.df

====
